---------------------------- MODULE Spec2Model ----------------------------
(***************************************************************************)
(* Model of the guardians-sdk core: the array-backed Merkle tree of        *)
(* package merkle (NewEmptyTree, SetLeaf, GetProof, Root, GetLeavesAmount) *)
(* and the certificate binding of package zkcertificate (New, LeafHash,    *)
(* VerifySignature).                                                       *)
(*                                                                         *)
(* Values.  A *uint256.Int / *big.Int is modelled as a tagged tuple:       *)
(*   <<"nil">>            the nil pointer (TreeNode{} has Value = nil)     *)
(*   <<"n", k>>           the integer k                                    *)
(*   <<"ax", k>>, <<"ay", k>>   the coordinates of the public key of the   *)
(*                        provider key k                                   *)
(*   <<"r8x", k, m>>, <<"r8y", k, m>>, <<"s", k, m>>   the components of   *)
(*                        the signature of key k on the message m          *)
(*   <<"s+", k, m>>       <<"s", k, m>> plus a multiple of the subgroup    *)
(*                        order that takes it out of the field             *)
(*   <<"H", x1, .., xn>>  the Poseidon digest of the inputs x1..xn, in     *)
(*                        that order (n = 2 for tree nodes, 9 for leaf     *)
(*                        hashes): deterministic, order sensitive, free    *)
(*                        of collisions, and always a field element        *)
(* Poseidon rejects an input that is not below the field modulus; the      *)
(* field is scaled down to the integers below FieldModulus.                *)
(***************************************************************************)
EXTENDS Integers, Sequences, FiniteSets, TLC

\* Deepest tree built (a tree of depth d has 2^d - 1 nodes).
MaxDepth == 3

\* Largest leaf index callers pass to SetLeaf and GetProof, besides the two
\* indices just outside the leaves.
MaxLeafIndex == 3

\* Deepest tree built where two trees are held side by side.
MaxTwoDepth == 2

\* Most UnmarshalText calls made on the nodes of one tree.
MaxUnmarshalText == 1

\* Number of provider key pairs.
MaxKey == 2

\* Size of the scaled-down field: <<"n", k>> is a field element iff k < FieldModulus.
FieldModulus == 2

VARIABLES
  built,    \* TRUE once NewEmptyTree has returned a tree
  Nodes,    \* Tree.Nodes: function 0..len-1 -> value (<<>> while no tree exists)
  allOk,    \* the nodes were written by NewEmptyTree and by SetLeaf calls that
            \* returned nil, and by nothing else
  last,     \* the latest call on the tree: operation, arguments and results
  cert,     \* the latest call of zkcertificate.New: arguments and results
  signed,   \* the latest call of SignCertificate: arguments and results
  checked,  \* the latest call of VerifySignature: arguments and results
  heap,     \* the caller's key and signature objects: address -> object
  owned,    \* the certificate New built from objects of the heap
  exclusive, \* the callers of SetLeaf hold a lock around each call
  procs,    \* the SetLeaf call of each goroutine: position and locals
  objs,     \* the uint256.Int objects: address -> value
  trees,    \* two Tree instances: tree -> Nodes, each node the address in Value
  at,       \* the latest call on one of the two trees
  readers,  \* the Root, GetProof or GetLeavesAmount call of each reading goroutine
  wire,     \* the latest MarshalJSON or UnmarshalJSON call of a ProviderData
  order,    \* two copies of one tree taking the same SetLeaf calls in two orders
  decoded   \* number of UnmarshalText calls made on the nodes of the tree

vars ==
  <<built, Nodes, allOk, last, cert, signed, checked, heap, owned, exclusive, procs,
    objs, trees, at, readers, wire, order, decoded>>

\* The variables of the tree, and the variables each group of calls leaves alone.
treeVars == <<built, Nodes, allOk, last, decoded>>

ownerVars == <<heap, owned>>

stepVars == <<exclusive, procs>>

twoVars == <<objs, trees, at>>

outsideTree ==
  <<cert, signed, checked, ownerVars, stepVars, twoVars, readers, wire, order>>

outsideCert ==
  <<treeVars, signed, checked, ownerVars, stepVars, twoVars, readers, wire, order>>

outsideSign ==
  <<treeVars, ownerVars, stepVars, twoVars, readers, wire, order>>

outsideOwner ==
  <<treeVars, cert, signed, checked, stepVars, twoVars, readers, wire, order>>

outsideStep ==
  <<allOk, last, decoded, cert, signed, checked, ownerVars, twoVars, readers, wire, order>>

outsideTwo ==
  <<treeVars, cert, signed, checked, ownerVars, stepVars, readers, wire, order>>

outsideRead ==
  <<allOk, last, decoded, cert, signed, checked, ownerVars, stepVars, twoVars, wire, order>>

outsideWire ==
  <<treeVars, cert, signed, checked, ownerVars, stepVars, twoVars, readers, order>>

outsideOrder ==
  <<treeVars, cert, signed, checked, ownerVars, stepVars, twoVars, readers, wire>>

-----------------------------------------------------------------------------
(* Errors *)

ErrNil == "nil"
ErrPanic == "panic"
ErrInvalidDepth == "invalid tree depth"
ErrInvalidLeafIndex == "invalid leaf index"
ErrNotInField == "inputs values not inside Finite Field"
ErrComputeHash == "compute hash: inputs values not inside Finite Field"

-----------------------------------------------------------------------------
(* Values and Go integer arithmetic *)

NilValue == <<"nil">>

Int256(k) == <<"n", k>>

\* The uint256 values callers pass in: the smallest and the largest field
\* element and the smallest value that is not a field element.
Values == {Int256(0), Int256(FieldModulus - 1), Int256(FieldModulus)}

IsNil(v) == v[1] = "nil"

\* utils.CheckBigIntInField: below the field modulus.  Digests, curve
\* coordinates and canonical signature scalars are field elements.
InField(v) ==
  IF v[1] = "n" THEN v[2] >= 0 /\ v[2] < FieldModulus
  ELSE v[1] \in {"H", "ax", "ay", "r8x", "r8y", "s"}

\* A text is the sequence of its characters.
DigitChars == <<"0", "1", "2", "3", "4", "5", "6", "7", "8", "9">>

\* The decimal digits of k >= 0, most significant first.
RECURSIVE Digits(_)
Digits(k) ==
  IF k < 10 THEN <<DigitChars[k + 1]>>
  ELSE Digits(k \div 10) \o <<DigitChars[(k % 10) + 1]>>

IsDigit(c) == \E d \in 1..10 : DigitChars[d] = c

DigitValue(c) == (CHOOSE d \in 1..10 : DigitChars[d] = c) - 1

\* The number a text of digits denotes.
RECURSIVE ParseDigits(_)
ParseDigits(t) ==
  IF t = <<>> THEN 0
  ELSE 10 * ParseDigits(SubSeq(t, 1, Len(t) - 1)) + DigitValue(t[Len(t)])

\* 2^256 - 1 in decimal.
twoPow256Sub1 ==
  <<"1", "1", "5", "7", "9", "2", "0", "8", "9", "2", "3", "7", "3", "1", "6", "1",
    "9", "5", "4", "2", "3", "5", "7", "0", "9", "8", "5", "0", "0", "8", "6", "8",
    "7", "9", "0", "7", "8", "5", "3", "2", "6", "9", "9", "8", "4", "6", "6", "5",
    "6", "4", "0", "5", "6", "4", "0", "3", "9", "4", "5", "7", "5", "8", "4", "0",
    "0", "7", "9", "1", "3", "1", "2", "9", "6", "3", "9", "9", "3", "5">>

\* The text without its leading zeroes, the last character excepted.
RECURSIVE StripZeroes(_)
StripZeroes(s) ==
  IF Len(s) > 1 /\ s[1] = "0" THEN StripZeroes(Tail(s)) ELSE s

\* The printable ASCII characters in byte order: the space is byte 32.  A
\* character is the string of itself; "U+0060" stands for the grave accent.
AsciiChars ==
  <<" ", "!", "\"", "#", "$", "%", "&", "'", "(", ")", "*", "+", ",", "-", ".", "/",
    "0", "1", "2", "3", "4", "5", "6", "7", "8", "9", ":", ";", "<", "=", ">", "?",
    "@", "A", "B", "C", "D", "E", "F", "G", "H", "I", "J", "K", "L", "M", "N", "O",
    "P", "Q", "R", "S", "T", "U", "V", "W", "X", "Y", "Z", "[", "\\", "]", "^", "_",
    "U+0060", "a", "b", "c", "d", "e", "f", "g", "h", "i", "j", "k", "l", "m", "n", "o",
    "p", "q", "r", "s", "t", "u", "v", "w", "x", "y", "z", "{", "|", "}", "~">>

\* The byte of an ASCII character.
Byte(c) == 31 + (CHOOSE k \in 1..Len(AsciiChars) : AsciiChars[k] = c)

\* The characters of an ASCII text as strconv.Quote writes them between its
\* double quotes, as a string: a backslash before each double quote and each
\* backslash.
RECURSIVE Quoted(_)
Quoted(t) ==
  IF t = <<>> THEN ""
  ELSE (IF t[1] \in {"\"", "\\"} THEN "\\" ELSE "") \o t[1] \o Quoted(Tail(t))

\* (*Int).fromDecimal reads the text in pieces of 19 characters from the right
\* (the last piece is what is left) and hands each to strconv.ParseUint: the
\* first piece, from the right, that is not digits only; <<>> when there is none.
RECURSIVE FirstBadPiece(_)
FirstBadPiece(bs) ==
  LET piece == IF Len(bs) > 19 THEN SubSeq(bs, Len(bs) - 18, Len(bs)) ELSE bs
  IN  IF \E k \in 1..Len(piece) : ~IsDigit(piece[k]) THEN piece
      ELSE IF Len(bs) > 19 THEN FirstBadPiece(SubSeq(bs, 1, Len(bs) - 19))
      ELSE <<>>

\* uint256.FromDecimal: at most one leading "+" and any leading zeroes are
\* dropped; a text longer than that of 2^256 - 1, or of that length and after
\* it as Go compares strings (byte by byte), is out of range; the empty text
\* is io.EOF; a piece that is not digits only is the error of
\* strconv.ParseUint, which quotes the piece; (nil, err) in each case.
FromDecimal(decimal) ==
  LET unsigned == IF decimal # <<>> /\ decimal[1] = "+" THEN Tail(decimal) ELSE decimal
      s == StripZeroes(unsigned)
      max == twoPow256Sub1
      greater == \E k \in 1..Len(s) :
                   /\ \A m \in 1..(k - 1) : s[m] = max[m]
                   /\ Byte(s[k]) > Byte(max[k])
      bad == FirstBadPiece(s)
  IN  IF Len(s) > Len(max) \/ (Len(s) = Len(max) /\ greater)
        THEN [v |-> NilValue, err |-> "hex number > 256 bits"]
      ELSE IF s = <<>> THEN [v |-> NilValue, err |-> "EOF"]
      ELSE IF bad # <<>>
        THEN [v |-> NilValue,
              err |-> "strconv.ParseUint: parsing \"" \o Quoted(bad) \o "\": invalid syntax"]
      ELSE [v |-> Int256(ParseDigits(s)), err |-> ErrNil]

\* (*TreeNode).UnmarshalText: the node's Value becomes what FromDecimal
\* returns, nil included.
UnmarshalText(text) ==
  LET r == FromDecimal(text)
  IN  [Value |-> r.v, err |-> r.err]

\* Go's integer division truncates towards zero.
GoDiv(a, b) == IF a >= 0 THEN a \div b ELSE -((-a) \div b)

\* Go's remainder takes the sign of the dividend.
GoMod(a, b) == a - b * GoDiv(a, b)

RECURSIVE Pow2(_)
Pow2(n) == IF n <= 0 THEN 1 ELSE 2 * Pow2(n - 1)

\* The number of levels of a complete binary tree of n nodes; the level of
\* node k counted from the root.
RECURSIVE Levels(_)
Levels(n) == IF n <= 0 THEN 0 ELSE 1 + Levels((n - 1) \div 2)

\* int(math.Log2(float64(n))) for n >= 1.
RECURSIVE Log2(_)
Log2(n) == IF n <= 1 THEN 0 ELSE 1 + Log2(n \div 2)

\* a & b on non-negative ints.
RECURSIVE BitAnd(_, _)
BitAnd(a, b) ==
  IF a = 0 \/ b = 0 THEN 0
  ELSE (IF a % 2 = 1 /\ b % 2 = 1 THEN 1 ELSE 0) + 2 * BitAnd(a \div 2, b \div 2)

\* a | b on non-negative ints.
RECURSIVE BitOr(_, _)
BitOr(a, b) ==
  IF a = 0 THEN b
  ELSE IF b = 0 THEN a
  ELSE (IF a % 2 = 1 \/ b % 2 = 1 THEN 1 ELSE 0) + 2 * BitOr(a \div 2, b \div 2)

\* The entries of a sequence.
Range(f) == {f[k] : k \in DOMAIN f}

\* The number of entries of a 0-indexed array.
Length(a) == Cardinality(DOMAIN a)

\* poseidon.Hash: panics on a nil input, fails on an input outside the field.
Poseidon(inputs) ==
  IF \E k \in DOMAIN inputs : IsNil(inputs[k])
    THEN [Value |-> NilValue, err |-> ErrPanic]
  ELSE IF \E k \in DOMAIN inputs : ~InField(inputs[k])
    THEN [Value |-> NilValue, err |-> ErrNotInField]
  ELSE [Value |-> <<"H">> \o inputs, err |-> ErrNil]

HashFunc(input) == Poseidon(input)

-----------------------------------------------------------------------------
(* package merkle *)

\* A leaves count that forgets to round up.
GetLeavesAmountHalf(nodes) == GoDiv(Length(nodes), 2)

GetLeavesAmount(nodes) == GoDiv(Length(nodes) + 1, 2)

GetParentIndex(i) == GoDiv(i - 1, 2)

IsRightChild(i) == GoMod(i, 2) = 0

\* A sibling index with the two branches exchanged.
GetSiblingIndexFlipped(i) == IF IsRightChild(i) THEN i + 1 ELSE i - 1

GetSiblingIndex(i) == IF IsRightChild(i) THEN i - 1 ELSE i + 1

Root(nodes) == nodes[0]

\* uint256.FromBig reports an overflow for a value of 2^256 or more; a Poseidon
\* digest is a field element and the field is narrower than 256 bits.
computeNodeHash(left, right) ==
  LET h == HashFunc(<<left, right>>)
      isOverflow == h.err = ErrNil /\ ~InField(h.Value)
  IN  IF h.err # ErrNil THEN h
      ELSE IF isOverflow THEN [Value |-> NilValue, err |-> "invalid hash"]
      ELSE h

\* getChildrenOf indexes nodes[i*2+1] and nodes[i*2+2]; an index outside the
\* array panics.
computeChildrenHashSwapped(i, nodes) ==
  IF (i * 2 + 1) \notin DOMAIN nodes \/ (i * 2 + 2) \notin DOMAIN nodes
    THEN [Value |-> NilValue, err |-> ErrPanic]
  ELSE computeNodeHash(nodes[i * 2 + 2], nodes[i * 2 + 1])

computeChildrenHash(i, nodes) ==
  IF (i * 2 + 1) \notin DOMAIN nodes \/ (i * 2 + 2) \notin DOMAIN nodes
    THEN [Value |-> NilValue, err |-> ErrPanic]
  ELSE computeNodeHash(nodes[i * 2 + 1], nodes[i * 2 + 2])

WrapComputeHash(err) == IF err = ErrNotInField THEN ErrComputeHash ELSE err

\* The level loop of NewEmptyTree, from iteration i on.
RECURSIVE NewEmptyTreeLoop(_, _, _, _, _, _)
NewEmptyTreeLoop(i, nodesAmount, firstNodeIndex0, leafValue, nodes, depth) ==
  IF i >= depth THEN [Nodes |-> nodes, err |-> ErrNil]
  ELSE
    LET firstNodeIndex == firstNodeIndex0 - nodesAmount
        filled == [k \in DOMAIN nodes |->
                     IF k >= firstNodeIndex /\ k < firstNodeIndex + nodesAmount
                       THEN leafValue ELSE nodes[k]]
    IN  IF firstNodeIndex > 0
          THEN LET node == computeChildrenHash(firstNodeIndex - 1, filled)
               IN  IF node.err # ErrNil
                     THEN [Nodes |-> <<>>, err |-> WrapComputeHash(node.err)]
                   ELSE NewEmptyTreeLoop(i + 1, GoDiv(nodesAmount, 2), firstNodeIndex,
                                         node.Value, filled, depth)
        ELSE NewEmptyTreeLoop(i + 1, GoDiv(nodesAmount, 2), firstNodeIndex,
                              leafValue, filled, depth)

NewEmptyTree(depth, leafValue) ==
  IF depth < 1 THEN [Nodes |-> <<>>, err |-> ErrInvalidDepth]
  ELSE LET nodes == [k \in 0..(Pow2(depth) - 1 - 1) |-> NilValue]
       IN  NewEmptyTreeLoop(0, Pow2(depth - 1), Length(nodes), leafValue, nodes, depth)

\* The ancestor loop of SetLeaf (for j := GetParentIndex(j); j > 0; ...).  The
\* tuple assignment t.Nodes[j], err = ... stores the returned node before err
\* is looked at; a panic inside the call stores nothing.
RECURSIVE SetLeafLoop(_, _)
SetLeafLoop(j, nodes) ==
  IF j > 0
    THEN LET h == computeChildrenHash(j, nodes)
             stored == [nodes EXCEPT ![j] = h.Value]
         IN  IF h.err = ErrPanic THEN [Nodes |-> nodes, err |-> ErrPanic]
             ELSE IF h.err # ErrNil
               THEN [Nodes |-> stored, err |-> WrapComputeHash(h.err)]
             ELSE SetLeafLoop(GetParentIndex(j), stored)
  ELSE [Nodes |-> nodes, err |-> ErrNil]

\* An index check that is off by one at the upper end.
InvalidLeafIndexOffByOne(i, leavesAmount) == i > leavesAmount \/ i < 0

\* if i >= leavesAmount || i < 0
InvalidLeafIndex(i, leavesAmount) == i >= leavesAmount \/ i < 0

\* A leaf slot that is one too far to the right.
LeafNodeIndexOffByOne(nodes, leavesAmount, i) == leavesAmount + i

\* j := len(t.Nodes) - leavesAmount + i
LeafNodeIndex(nodes, leavesAmount, i) == Length(nodes) - leavesAmount + i

\* A direction bit that is set for the even index.
IndexBitEven(j) == 1 - GoMod(j, 2)

\* j % 2, the bit GetProof ors into Indices at the current level.
IndexBit(j) == GoMod(j, 2)

SetLeaf(nodes, i, val) ==
  LET leavesAmount == GetLeavesAmount(nodes)
  IN  IF InvalidLeafIndex(i, leavesAmount)
        THEN [Nodes |-> nodes, err |-> ErrInvalidLeafIndex]
      ELSE
        LET j == LeafNodeIndex(nodes, leavesAmount, i)
        IN  IF j \notin DOMAIN nodes THEN [Nodes |-> nodes, err |-> ErrPanic]
            ELSE
              LET written == [nodes EXCEPT ![j] = val]
                  loop == SetLeafLoop(GetParentIndex(j), written)
                  h == computeChildrenHash(0, loop.Nodes)
              IN  IF loop.err # ErrNil THEN loop
                  ELSE IF h.err = ErrPanic THEN [Nodes |-> loop.Nodes, err |-> ErrPanic]
                  ELSE [Nodes |-> [loop.Nodes EXCEPT ![0] = h.Value],
                        err |-> WrapComputeHash(h.err)]

EmptyProof == [Path |-> <<>>, Indices |-> 0]

\* The walk of GetProof (for level := 0; j > 0; j, level = GetParentIndex(j), level+1).
RECURSIVE GetProofLoop(_, _, _, _)
GetProofLoop(j, level, proof, nodes) ==
  IF j > 0
    THEN LET siblingIndex == GetSiblingIndex(j)
         IN  IF siblingIndex \notin DOMAIN nodes \/ level \notin DOMAIN proof.Path
               THEN [proof |-> EmptyProof, err |-> ErrPanic]
             ELSE GetProofLoop(GetParentIndex(j), level + 1,
                    [Path |-> [proof.Path EXCEPT ![level] = nodes[siblingIndex]],
                     Indices |-> BitOr(proof.Indices, IndexBit(j) * Pow2(level))],
                    nodes)
  ELSE [proof |-> proof, err |-> ErrNil]

GetProof(nodes, i) ==
  LET leavesAmount == GetLeavesAmount(nodes)
  IN  IF InvalidLeafIndex(i, leavesAmount)
        THEN [proof |-> EmptyProof, err |-> ErrInvalidLeafIndex]
      ELSE
        LET made == [Path |-> [k \in 0..(Log2(Length(nodes) + 1) - 1) |-> NilValue],
                     Indices |-> 0]
            j == LeafNodeIndex(nodes, leavesAmount, i)
            loop == GetProofLoop(j, 0, made, nodes)
        IN  IF loop.err # ErrNil THEN loop
            ELSE IF (Length(loop.proof.Path) - 1) \notin DOMAIN loop.proof.Path
              THEN [proof |-> EmptyProof, err |-> ErrPanic]
            ELSE [proof |-> [loop.proof EXCEPT
                               !.Path[Length(loop.proof.Path) - 1] = Root(nodes)],
                  err |-> ErrNil]

-----------------------------------------------------------------------------
(* SetLeaf step by step: one step per read or write of a node *)

\* The goroutines that call SetLeaf on the tree.
Procs == {"a", "b"}

\* A goroutine that has not called SetLeaf: pc is its position, n the node
\* index j of the loop, left and right the children getChildrenOf has read,
\* writes the indices it has written, before the nodes when it was called,
\* buf its stores that have not reached the memory the goroutines share, the
\* oldest first, each the index and the value.
NoProc ==
  [pc |-> "idle", i |-> 0, val |-> NilValue, n |-> 0, left |-> NilValue,
   right |-> NilValue, err |-> ErrNil, writes |-> <<>>, before |-> <<>>,
   buf |-> <<>>]

\* The call has returned (or has not been made).
Returned(pr) == pr.pc \in {"idle", "done"}

\* What the goroutine reads from node n: its latest store to n that has not
\* reached the memory yet, else the node in memory.  Nothing orders the read
\* after a store of another goroutine, so that store need not be seen.
Load(pr, nodes, n) ==
  LET own == {k \in 1..Len(pr.buf) : pr.buf[k][1] = n}
  IN  IF own # {} THEN pr.buf[CHOOSE k \in own : \A m \in own : m <= k][2]
      ELSE nodes[n]

\* The memory once every store of buf has reached it, the oldest first.
RECURSIVE Drain(_, _)
Drain(buf, nodes) ==
  IF buf = <<>> THEN nodes
  ELSE Drain(Tail(buf), [nodes EXCEPT ![buf[1][1]] = buf[1][2]])

\* leavesAmount := t.GetLeavesAmount(); the index check; j := ...
SetLeafEnter(pr, nodes, i, val) ==
  LET leavesAmount == GetLeavesAmount(nodes)
      called == [pr EXCEPT !.i = i, !.val = val, !.before = nodes]
  IN  IF InvalidLeafIndex(i, leavesAmount)
        THEN [called EXCEPT !.pc = "done", !.err = ErrInvalidLeafIndex]
      ELSE [called EXCEPT !.pc = "writeLeaf",
                          !.n = LeafNodeIndex(nodes, leavesAmount, i)]

\* A leaf write that goes on two levels up.
SetLeafWriteLeafSkipping(pr, nodes) ==
  IF pr.n \notin DOMAIN nodes
    THEN [pr EXCEPT !.pc = "panic", !.err = ErrPanic]
  ELSE [pr EXCEPT !.pc = "readLeft",
                  !.n = GetParentIndex(GetParentIndex(pr.n)),
                  !.writes = Append(@, pr.n),
                  !.buf = Append(@, <<pr.n, pr.val>>)]

\* t.Nodes[j] = val, then j := GetParentIndex(j) of the loop (or 0 of the
\* statement after the loop).
SetLeafWriteLeaf(pr, nodes) ==
  IF pr.n \notin DOMAIN nodes
    THEN [pr EXCEPT !.pc = "panic", !.err = ErrPanic]
  ELSE [pr EXCEPT !.pc = "readLeft", !.n = GetParentIndex(pr.n),
                  !.writes = Append(@, pr.n),
                  !.buf = Append(@, <<pr.n, pr.val>>)]

\* getChildrenOf: nodes[i*2+1]
SetLeafReadLeft(pr, nodes) ==
  IF (pr.n * 2 + 1) \notin DOMAIN nodes
    THEN [pr EXCEPT !.pc = "panic", !.err = ErrPanic]
  ELSE [pr EXCEPT !.pc = "readRight", !.left = Load(pr, nodes, pr.n * 2 + 1)]

\* getChildrenOf: nodes[i*2+2]
SetLeafReadRight(pr, nodes) ==
  IF (pr.n * 2 + 2) \notin DOMAIN nodes
    THEN [pr EXCEPT !.pc = "panic", !.err = ErrPanic]
  ELSE [pr EXCEPT !.pc = "writeNode", !.right = Load(pr, nodes, pr.n * 2 + 2)]

\* t.Nodes[j], err = computeNodeHash(left, right); the error check; the next
\* j of the loop, the root after the loop, or return nil.
SetLeafWriteNode(pr) ==
  LET h == computeNodeHash(pr.left, pr.right)
      wrote == [pr EXCEPT !.writes = Append(@, pr.n),
                          !.buf = Append(@, <<pr.n, h.Value>>)]
  IN  IF h.err = ErrPanic THEN [pr EXCEPT !.pc = "panic", !.err = ErrPanic]
      ELSE IF h.err # ErrNil
        THEN [wrote EXCEPT !.pc = "done", !.err = WrapComputeHash(h.err)]
      ELSE IF pr.n = 0 THEN [wrote EXCEPT !.pc = "done", !.err = ErrNil]
      ELSE [wrote EXCEPT !.pc = "readLeft", !.n = GetParentIndex(pr.n)]

-----------------------------------------------------------------------------
(* Root, GetProof and GetLeavesAmount step by step: one step per node read. *)
(* Each step returns the goroutine's locals and the nodes of the tree.      *)

\* The goroutines that read the tree.
Readers == {"r", "q"}

\* A goroutine that has not called: pc is its position, j and level the
\* variables of the loop of GetProof, proof the Proof under construction.
NoReader ==
  [pc |-> "idle", op |-> "none", i |-> 0, j |-> 0, level |-> 0,
   proof |-> EmptyProof, err |-> ErrNil, node |-> NilValue, n |-> 0]

\* return t.Nodes[0]
RootRead(rd, nodes) ==
  [proc |-> [rd EXCEPT !.pc = "done", !.op = "Root", !.node = nodes[0]],
   Nodes |-> nodes]

\* return (len(t.Nodes) + 1) / 2
GetLeavesAmountRead(rd, nodes) ==
  [proc |-> [rd EXCEPT !.pc = "done", !.op = "GetLeavesAmount",
                       !.n = GoDiv(Length(nodes) + 1, 2)],
   Nodes |-> nodes]

\* GetProof up to the loop: the index check, make(Path), j.
GetProofEnter(rd, nodes, i) ==
  LET leavesAmount == GetLeavesAmount(nodes)
      called == [rd EXCEPT !.op = "GetProof", !.i = i]
      j == LeafNodeIndex(nodes, leavesAmount, i)
  IN  [proc |->
         IF InvalidLeafIndex(i, leavesAmount)
           THEN [called EXCEPT !.pc = "done", !.err = ErrInvalidLeafIndex]
         ELSE [called EXCEPT
                 !.proof = [Path |-> [k \in 0..(Log2(Length(nodes) + 1) - 1) |-> NilValue],
                            Indices |-> 0],
                 !.j = j, !.level = 0,
                 !.pc = IF j > 0 THEN "sibling" ELSE "root"],
       Nodes |-> nodes]

\* An iteration that takes the sibling out of the tree.
GetProofSiblingMoved(rd, nodes) ==
  LET siblingIndex == GetSiblingIndex(rd.j)
  IN  IF siblingIndex \notin DOMAIN nodes \/ rd.level \notin DOMAIN rd.proof.Path
        THEN [proc |-> [rd EXCEPT !.pc = "panic", !.err = ErrPanic], Nodes |-> nodes]
      ELSE [proc |->
              [rd EXCEPT
                 !.proof = [Path |-> [rd.proof.Path EXCEPT ![rd.level] = nodes[siblingIndex]],
                            Indices |-> BitOr(rd.proof.Indices,
                                              IndexBit(rd.j) * Pow2(rd.level))],
                 !.j = GetParentIndex(rd.j), !.level = rd.level + 1,
                 !.pc = IF GetParentIndex(rd.j) > 0 THEN "sibling" ELSE "root"],
            Nodes |-> [nodes EXCEPT ![siblingIndex] = NilValue]]

\* One iteration of the loop of GetProof: the bit, the sibling read, the next
\* j and level.
GetProofSibling(rd, nodes) ==
  LET siblingIndex == GetSiblingIndex(rd.j)
  IN  IF siblingIndex \notin DOMAIN nodes \/ rd.level \notin DOMAIN rd.proof.Path
        THEN [proc |-> [rd EXCEPT !.pc = "panic", !.err = ErrPanic], Nodes |-> nodes]
      ELSE [proc |->
              [rd EXCEPT
                 !.proof = [Path |-> [rd.proof.Path EXCEPT ![rd.level] = nodes[siblingIndex]],
                            Indices |-> BitOr(rd.proof.Indices,
                                              IndexBit(rd.j) * Pow2(rd.level))],
                 !.j = GetParentIndex(rd.j), !.level = rd.level + 1,
                 !.pc = IF GetParentIndex(rd.j) > 0 THEN "sibling" ELSE "root"],
            Nodes |-> nodes]

\* proof.Path[len(proof.Path)-1] = t.Root(); return proof, nil
GetProofRoot(rd, nodes) ==
  IF (Length(rd.proof.Path) - 1) \notin DOMAIN rd.proof.Path
    THEN [proc |-> [rd EXCEPT !.pc = "panic", !.err = ErrPanic], Nodes |-> nodes]
  ELSE [proc |-> [rd EXCEPT !.pc = "done",
                            !.proof.Path[Length(rd.proof.Path) - 1] = Root(nodes)],
        Nodes |-> nodes]

-----------------------------------------------------------------------------
(* Trees as Go holds them: TreeNode.Value is a pointer to a uint256.Int.    *)
(* objs maps the address of each uint256.Int to its value; a tree's Nodes   *)
(* hold addresses.  An object made by computeNodeHash for node j of tree t  *)
(* has the address <<t, "node", j>>, one made by NewEmptyTree for a level   *)
(* has <<t, "level", l>>; an object no node points to any more is dropped   *)
(* when its address is used again.                                          *)

TreeIds == {"s", "t"}

\* The nil pointer of TreeNode{}.
NilRef == <<"nil">>

\* The package variable EmptyLeafValue: a field element.
EmptyLeafValue == Int256(FieldModulus - 1)

\* The objects that exist before any tree: EmptyLeafValue and two values of
\* the caller, one of them outside the field.
CallerObjects ==
  [a \in {<<"EmptyLeafValue">>, <<"x">>, <<"y">>} |->
     CASE a = <<"EmptyLeafValue">> -> EmptyLeafValue
       [] a = <<"x">> -> Int256(0)
       [] a = <<"y">> -> Int256(FieldModulus)]

Deref(h, a) == IF a = NilRef THEN NilValue ELSE h[a]

\* The values of the nodes of a tree.
TreeValues(h, nodes) == [k \in DOMAIN nodes |-> Deref(h, nodes[k])]

\* uint256.FromBig: a new object at address a with value v.
Alloc(h, a, v) == [x \in DOMAIN h \cup {a} |-> IF x = a THEN v ELSE h[x]]

\* An assignment that copies the value into the object the node points to.
StoreRefInPlace(h, nodes, j, ref) ==
  [objs |-> IF nodes[j] = NilRef THEN h ELSE [h EXCEPT ![nodes[j]] = Deref(h, ref)],
   Nodes |-> nodes]

\* t.Nodes[j] = val: the node takes the pointer val holds.
StoreRef(h, nodes, j, ref) == [objs |-> h, Nodes |-> [nodes EXCEPT ![j] = ref]]

\* t.Nodes[j] = TreeNode{Value: convertedVal} with a new object.
StoreNew(h, nodes, j, a, v) ==
  [objs |-> Alloc(h, a, v), Nodes |-> [nodes EXCEPT ![j] = a]]

\* NewEmptyTree: the leaves point to leafValue itself, the nodes of each
\* level above to the one object computeNodeHash made for that level.
NewEmptyTreeAt(h, t, depth, leafValue) ==
  LET r == NewEmptyTree(depth, Deref(h, leafValue))
      level(k) == Levels(k)
      ref(k) == IF level(k) = depth - 1 THEN leafValue ELSE <<t, "level", level(k)>>
  IN  IF r.err # ErrNil THEN [objs |-> h, Nodes |-> <<>>, err |-> r.err]
      ELSE [objs |-> [x \in DOMAIN h \cup {<<t, "level", l>> : l \in 0..(depth - 2)} |->
                        IF x \in DOMAIN h THEN h[x]
                        ELSE r.Nodes[Pow2(x[3]) - 1]],
            Nodes |-> [k \in DOMAIN r.Nodes |-> ref(k)],
            err |-> ErrNil]

\* t.Nodes[j], err = computeChildrenHash(j, t.Nodes) and the error check.
SetLeafAtNode(t, j, st) ==
  LET h == computeChildrenHash(j, TreeValues(st.objs, st.Nodes))
      stored == IF h.err = ErrNil
                  THEN StoreNew(st.objs, st.Nodes, j, <<t, "node", j>>, h.Value)
                ELSE StoreRef(st.objs, st.Nodes, j, NilRef)
  IN  IF h.err = ErrPanic THEN [objs |-> st.objs, Nodes |-> st.Nodes, err |-> ErrPanic]
      ELSE [objs |-> stored.objs, Nodes |-> stored.Nodes, err |-> WrapComputeHash(h.err)]

RECURSIVE SetLeafAtLoop(_, _, _)
SetLeafAtLoop(t, j, st) ==
  IF j > 0
    THEN LET r == SetLeafAtNode(t, j, st)
         IN  IF r.err # ErrNil THEN r ELSE SetLeafAtLoop(t, GetParentIndex(j), r)
  ELSE [objs |-> st.objs, Nodes |-> st.Nodes, err |-> ErrNil]

\* SetLeaf on tree t, val holding the pointer ref.
SetLeafAt(h, t, nodes, i, ref) ==
  LET leavesAmount == GetLeavesAmount(nodes)
      j == LeafNodeIndex(nodes, leavesAmount, i)
  IN  IF InvalidLeafIndex(i, leavesAmount)
        THEN [objs |-> h, Nodes |-> nodes, err |-> ErrInvalidLeafIndex]
      ELSE IF j \notin DOMAIN nodes THEN [objs |-> h, Nodes |-> nodes, err |-> ErrPanic]
      ELSE LET loop == SetLeafAtLoop(t, GetParentIndex(j), StoreRef(h, nodes, j, ref))
           IN  IF loop.err # ErrNil THEN loop ELSE SetLeafAtNode(t, 0, loop)

NoCallAt == [op |-> "none", t |-> "", i |-> 0, ref |-> NilRef, err |-> ErrNil]

-----------------------------------------------------------------------------
(* Calls on one tree *)

\* The leaf indices callers pass in: -1, the leaves up to MaxLeafIndex, and the
\* first index past the leaves.
LeafIndexInputs(nodes) ==
  {i \in -1..GetLeavesAmount(nodes) : i <= MaxLeafIndex \/ i = GetLeavesAmount(nodes)}

\* A tree exists and no call on it has panicked: an unrecovered panic ends the
\* program.
Running == built /\ last.err # ErrPanic

NoCall == [op |-> "none", i |-> 0, val |-> NilValue, err |-> ErrNil,
           proof |-> EmptyProof, node |-> NilValue, n |-> 0]

NoCert == [op |-> "none"]

\* No tree yet: A and B are the nodes of the two copies, (i, x) and (j, y) the
\* two calls, errA and errB what the calls on each copy returned.
NoOrder ==
  [phase |-> "none", A |-> <<>>, B |-> <<>>, i |-> 0, x |-> NilValue, j |-> 0,
   y |-> NilValue, errA |-> <<>>, errB |-> <<>>]

NoSign == [op |-> "none"]

Init ==
  /\ built = FALSE
  /\ Nodes = <<>>
  /\ allOk = TRUE
  /\ last = NoCall
  /\ cert = NoCert
  /\ signed = NoSign
  /\ checked = NoSign
  /\ heap = <<>>
  /\ owned = NoCert
  /\ exclusive = FALSE
  /\ procs = [p \in Procs |-> NoProc]
  /\ objs = CallerObjects
  /\ trees = [t \in TreeIds |-> <<>>]
  /\ at = NoCallAt
  /\ readers = [r \in Readers |-> NoReader]
  /\ wire = NoCert
  /\ order = NoOrder
  /\ decoded = 0

CallNewEmptyTree ==
  /\ ~built
  /\ \E depth \in 0..MaxDepth, leafValue \in Values :
       LET r == NewEmptyTree(depth, leafValue)
       IN  /\ built' = (r.err = ErrNil)
           /\ Nodes' = r.Nodes
           /\ allOk' = TRUE
           /\ last' = [NoCall EXCEPT !.op = "NewEmptyTree", !.i = depth,
                                     !.val = leafValue, !.err = r.err]
  /\ UNCHANGED <<decoded, outsideTree>>

CallSetLeaf ==
  /\ Running
  /\ \E i \in LeafIndexInputs(Nodes), val \in Values :
       LET r == SetLeaf(Nodes, i, val)
       IN  /\ Nodes' = r.Nodes
           /\ allOk' = (allOk /\ r.err = ErrNil)
           /\ last' = [NoCall EXCEPT !.op = "SetLeaf", !.i = i, !.val = val,
                                     !.err = r.err]
  /\ UNCHANGED <<built, decoded, outsideTree>>

CallGetProof ==
  /\ Running
  /\ \E i \in LeafIndexInputs(Nodes) :
       LET r == GetProof(Nodes, i)
       IN  last' = [NoCall EXCEPT !.op = "GetProof", !.i = i, !.err = r.err,
                                  !.proof = r.proof]
  /\ UNCHANGED <<built, Nodes, allOk, decoded, outsideTree>>

CallRoot ==
  /\ Running
  /\ last' = [NoCall EXCEPT !.op = "Root", !.node = Nodes[0]]
  /\ UNCHANGED <<built, Nodes, allOk, decoded, outsideTree>>

CallGetLeavesAmount ==
  /\ Running
  /\ last' = [NoCall EXCEPT !.op = "GetLeavesAmount", !.n = GetLeavesAmount(Nodes)]
  /\ UNCHANGED <<built, Nodes, allOk, decoded, outsideTree>>

\* The texts callers decode into a node: the decimal text of each value they
\* pass in, the same with a leading "+" or a leading zero, the empty text, a
\* negative number and a text that is no number.
TextInputs ==
  UNION {{Digits(v[2]), <<"+">> \o Digits(v[2]), <<"0">> \o Digits(v[2])} : v \in Values}
    \cup {<<>>, <<"-", "1">>, <<"0", "x">>}

\* t.Nodes[k].UnmarshalText(text) on a node of the tree: Nodes is exported and
\* the method writes the node in place; no ancestor is recomputed.
CallUnmarshalText ==
  /\ Running
  /\ decoded < MaxUnmarshalText
  /\ \E k \in DOMAIN Nodes, text \in TextInputs :
       LET r == UnmarshalText(text)
       IN  /\ Nodes' = [Nodes EXCEPT ![k] = r.Value]
           /\ allOk' = FALSE
           /\ decoded' = decoded + 1
           /\ last' = [NoCall EXCEPT !.op = "UnmarshalText", !.i = k,
                                     !.val = r.Value, !.err = r.err]
  /\ UNCHANGED <<built, outsideTree>>

Next ==
  \/ CallNewEmptyTree
  \/ CallSetLeaf
  \/ CallUnmarshalText
  \/ CallGetProof
  \/ CallRoot
  \/ CallGetLeavesAmount

Spec == Init /\ [][Next]_vars

-----------------------------------------------------------------------------
(* Goroutines calling SetLeaf on one tree *)

\* No goroutine has panicked: an unrecovered panic ends the program.
NoPanic == \A q \in Procs : procs[q].pc # "panic"

\* A lock that lets every caller in.
MayEnterAlways(p) == TRUE

\* With the lock, a call starts only when no other call is in progress.
MayEnter(p) == exclusive => \A q \in Procs \ {p} : Returned(procs[q])

\* NewEmptyTree for the goroutines; the callers do or do not use a lock.
StartShared ==
  /\ ~built /\ last.op = "none"
  /\ \E depth \in 1..MaxDepth, leafValue \in Values, lock \in BOOLEAN :
       LET r == NewEmptyTree(depth, leafValue)
       IN  /\ r.err = ErrNil
           /\ built' = TRUE
           /\ Nodes' = r.Nodes
           /\ exclusive' = lock
  /\ UNCHANGED <<procs, outsideStep>>

StepEnter(p) ==
  /\ built /\ NoPanic /\ procs[p].pc = "idle" /\ MayEnter(p)
  /\ \E i \in LeafIndexInputs(Nodes), val \in Values :
       procs' = [procs EXCEPT ![p] = SetLeafEnter(procs[p], Nodes, i, val)]
  /\ UNCHANGED <<built, Nodes, exclusive, outsideStep>>

StepWriteLeaf(p) ==
  /\ NoPanic /\ procs[p].pc = "writeLeaf"
  /\ procs' = [procs EXCEPT ![p] = SetLeafWriteLeaf(procs[p], Nodes)]
  /\ UNCHANGED <<built, Nodes, exclusive, outsideStep>>

StepReadLeft(p) ==
  /\ NoPanic /\ procs[p].pc = "readLeft"
  /\ procs' = [procs EXCEPT ![p] = SetLeafReadLeft(procs[p], Nodes)]
  /\ UNCHANGED <<built, Nodes, exclusive, outsideStep>>

StepReadRight(p) ==
  /\ NoPanic /\ procs[p].pc = "readRight"
  /\ procs' = [procs EXCEPT ![p] = SetLeafReadRight(procs[p], Nodes)]
  /\ UNCHANGED <<built, Nodes, exclusive, outsideStep>>

\* With the lock, the caller unlocks when the call returns, and the unlock
\* puts the stores of the call in memory before another call starts.
StepWriteNode(p) ==
  /\ NoPanic /\ procs[p].pc = "writeNode"
  /\ LET pr == SetLeafWriteNode(procs[p])
     IN  IF exclusive /\ pr.pc = "done"
           THEN /\ procs' = [procs EXCEPT ![p] = [pr EXCEPT !.buf = <<>>]]
                /\ Nodes' = Drain(pr.buf, Nodes)
         ELSE /\ procs' = [procs EXCEPT ![p] = pr]
              /\ Nodes' = Nodes
  /\ UNCHANGED <<built, exclusive, outsideStep>>

\* The oldest store of p that has not reached the memory reaches it.
StepFlush(p) ==
  /\ NoPanic /\ procs[p].buf # <<>>
  /\ Nodes' = [Nodes EXCEPT ![procs[p].buf[1][1]] = procs[p].buf[1][2]]
  /\ procs' = [procs EXCEPT ![p].buf = Tail(@)]
  /\ UNCHANGED <<built, exclusive, outsideStep>>

NextStep ==
  \/ StartShared
  \/ \E p \in Procs : StepEnter(p)
  \/ \E p \in Procs : StepWriteLeaf(p)
  \/ \E p \in Procs : StepReadLeft(p)
  \/ \E p \in Procs : StepReadRight(p)
  \/ \E p \in Procs : StepWriteNode(p)
  \/ \E p \in Procs : StepFlush(p)

SpecStep == Init /\ [][NextStep]_vars

-----------------------------------------------------------------------------
(* Goroutines reading one tree that no SetLeaf is changing *)

\* No reading goroutine has called yet.
NoneReading == \A r \in Readers : readers[r].pc = "idle"

\* NewEmptyTree, before any goroutine reads.
QuietNewEmptyTree ==
  /\ ~built /\ last.op = "none" /\ NoneReading
  /\ \E depth \in 1..MaxDepth, leafValue \in Values :
       LET r == NewEmptyTree(depth, leafValue)
       IN  r.err = ErrNil /\ built' = TRUE /\ Nodes' = r.Nodes
  /\ UNCHANGED <<readers, outsideRead>>

\* A SetLeaf that returns nil, before any goroutine reads.
QuietSetLeaf ==
  /\ built /\ NoneReading
  /\ \E i \in LeafIndexInputs(Nodes), val \in Values :
       LET r == SetLeaf(Nodes, i, val)
       IN  r.err = ErrNil /\ Nodes' = r.Nodes
  /\ UNCHANGED <<built, readers, outsideRead>>

\* A reading goroutine takes the step r of its call.
ReaderStep(rd, r) ==
  /\ readers' = [readers EXCEPT ![rd] = r.proc]
  /\ Nodes' = r.Nodes
  /\ UNCHANGED <<built, outsideRead>>

ReadRoot(rd) ==
  /\ built /\ readers[rd].pc = "idle"
  /\ ReaderStep(rd, RootRead(readers[rd], Nodes))

ReadGetLeavesAmount(rd) ==
  /\ built /\ readers[rd].pc = "idle"
  /\ ReaderStep(rd, GetLeavesAmountRead(readers[rd], Nodes))

ReadGetProofEnter(rd) ==
  /\ built /\ readers[rd].pc = "idle"
  /\ \E i \in LeafIndexInputs(Nodes) :
       ReaderStep(rd, GetProofEnter(readers[rd], Nodes, i))

ReadGetProofSibling(rd) ==
  /\ readers[rd].pc = "sibling"
  /\ ReaderStep(rd, GetProofSibling(readers[rd], Nodes))

ReadGetProofRoot(rd) ==
  /\ readers[rd].pc = "root"
  /\ ReaderStep(rd, GetProofRoot(readers[rd], Nodes))

NextRead ==
  \/ QuietNewEmptyTree
  \/ QuietSetLeaf
  \/ \E rd \in Readers : ReadRoot(rd)
  \/ \E rd \in Readers : ReadGetLeavesAmount(rd)
  \/ \E rd \in Readers : ReadGetProofEnter(rd)
  \/ \E rd \in Readers : ReadGetProofSibling(rd)
  \/ \E rd \in Readers : ReadGetProofRoot(rd)

SpecRead == Init /\ [][NextRead]_vars

-----------------------------------------------------------------------------
(* The same SetLeaf calls in two orders, on two copies of one tree *)

Panicked(r) == r.err = ErrPanic

\* NewEmptyTree: both copies start as the tree it returns.
OrderNewEmptyTree ==
  /\ order.phase = "none"
  /\ \E depth \in 1..MaxDepth, leafValue \in Values :
       LET r == NewEmptyTree(depth, leafValue)
       IN  /\ r.err = ErrNil
           /\ order' = [order EXCEPT !.phase = "made", !.A = r.Nodes, !.B = r.Nodes]
  /\ UNCHANGED outsideOrder

\* One SetLeaf, whatever it returns, before the two orders part.
OrderPrepare ==
  /\ order.phase = "made"
  /\ \E i \in LeafIndexInputs(order.A), val \in Values :
       LET r == SetLeaf(order.A, i, val)
       IN  /\ ~Panicked(r)
           /\ order' = [order EXCEPT !.phase = "prepared", !.A = r.Nodes, !.B = r.Nodes]
  /\ UNCHANGED outsideOrder

\* Copy A takes SetLeaf(i, x); copy B takes SetLeaf(j, y) when j is another
\* leaf, and waits when j = i.
OrderFirst ==
  /\ order.phase \in {"made", "prepared"}
  /\ \E i \in LeafIndexInputs(order.A), j \in LeafIndexInputs(order.A),
        x \in Values, y \in Values :
       LET a == SetLeaf(order.A, i, x)
           b == IF i = j THEN [Nodes |-> order.B, err |-> ErrNil]
                ELSE SetLeaf(order.B, j, y)
       IN  order' = [phase |-> IF Panicked(a) \/ Panicked(b) THEN "panic" ELSE "first",
                     A |-> a.Nodes, B |-> b.Nodes, i |-> i, x |-> x, j |-> j, y |-> y,
                     errA |-> <<a.err>>, errB |-> <<b.err>>]
  /\ UNCHANGED outsideOrder

\* Copy A takes SetLeaf(j, y); copy B takes SetLeaf(i, x) when j is another
\* leaf, and its only call SetLeaf(i, y) when j = i.
OrderSecond ==
  /\ order.phase = "first"
  /\ LET a == SetLeaf(order.A, order.j, order.y)
         b == SetLeaf(order.B, order.i, IF order.i = order.j THEN order.y ELSE order.x)
     IN  order' = [order EXCEPT
                     !.phase = IF Panicked(a) \/ Panicked(b) THEN "panic" ELSE "second",
                     !.A = a.Nodes, !.B = b.Nodes,
                     !.errA = Append(@, a.err), !.errB = Append(@, b.err)]
  /\ UNCHANGED outsideOrder

NextOrder ==
  \/ OrderNewEmptyTree
  \/ OrderPrepare
  \/ OrderFirst
  \/ OrderSecond

SpecOrder == Init /\ [][NextOrder]_vars

-----------------------------------------------------------------------------
(* Calls on two trees *)

\* The pointers callers pass as leafValue and in val.
LeafValueInputs == {<<"EmptyLeafValue">>, <<"x">>}

ValInputs == {<<"EmptyLeafValue">>, <<"x">>, <<"y">>}

CallNewEmptyTreeAt(t) ==
  /\ trees[t] = <<>> /\ at.err # ErrPanic
  /\ \E depth \in 0..MaxTwoDepth, leafValue \in LeafValueInputs :
       LET r == NewEmptyTreeAt(objs, t, depth, leafValue)
       IN  /\ objs' = r.objs
           /\ trees' = [trees EXCEPT ![t] = r.Nodes]
           /\ at' = [op |-> "NewEmptyTree", t |-> t, i |-> depth, ref |-> leafValue,
                     err |-> r.err]
  /\ UNCHANGED outsideTwo

CallSetLeafAt(t) ==
  /\ trees[t] # <<>> /\ at.err # ErrPanic
  /\ \E i \in LeafIndexInputs(trees[t]), ref \in ValInputs :
       LET r == SetLeafAt(objs, t, trees[t], i, ref)
       IN  /\ objs' = r.objs
           /\ trees' = [trees EXCEPT ![t] = r.Nodes]
           /\ at' = [op |-> "SetLeaf", t |-> t, i |-> i, ref |-> ref, err |-> r.err]
  /\ UNCHANGED outsideTwo

\* Both trees are made, in either order and at any time; the callers set
\* leaves of tree t.
NextTwo ==
  \/ \E t \in TreeIds : CallNewEmptyTreeAt(t)
  \/ CallSetLeafAt("t")

SpecTwo == Init /\ [][NextTwo]_vars

-----------------------------------------------------------------------------
(* package zkcertificate *)

ErrContentHash == "hash certificate content: content hash failed"
ErrHashMessage == "hash message: inputs values not inside Finite Field"
ErrVerifyHashMessage == "verify signature: hash message: inputs values not inside Finite Field"
ErrInvalidSignature == "invalid signature"
ErrComputeLeafHash == "compute leaf hash: compute hash: inputs values not inside Finite Field"

Keys == 1..MaxKey

\* A pointer: nil, or the address of a value.
NilPtr == [isNil |-> TRUE]

Ptr(v) == [isNil |-> FALSE, v |-> v]

\* Hash.BigInt: the integer a Hash holds.
HashBigInt(h) == h

\* HashFromBigInt: a Poseidon digest fits a Hash, which keeps its value.
HashFromBigInt(b) == b

ZeroHash == Int256(0)

\* babyjub: the public key of the private key k.
PublicKeyOf(k) == [X |-> <<"ax", k>>, Y |-> <<"ay", k>>]

\* babyjub PrivateKey.SignPoseidon: the signature of k on msg.
SignPoseidon(k, msg) ==
  [R8 |-> [X |-> <<"r8x", k, msg>>, Y |-> <<"r8y", k, msg>>], S |-> <<"s", k, msg>>]

\* The scalar S modulo the subgroup order.
ScalarModOrder(S) == IF S[1] = "s+" THEN <<"s", S[2], S[3]>> ELSE S

\* babyjub PublicKey.VerifyPoseidon: hashes (R8.X, R8.Y, pk.X, pk.Y, msg),
\* rejecting when that fails, and compares S * B8 with R8 + 8 * hm * pk; the
\* scalar enters only through the point S * B8.
VerifyPoseidon(pk, msg, sig) ==
  /\ Poseidon(<<sig.R8.X, sig.R8.Y, pk.X, pk.Y, msg>>).err = ErrNil
  /\ \E k \in Keys :
       /\ pk = PublicKeyOf(k)
       /\ sig.R8 = SignPoseidon(k, msg).R8
       /\ ScalarModOrder(sig.S) = SignPoseidon(k, msg).S

\* A signing that hashes the commitment before the content.
SignCertificateSwapped(providerKey, contentHash, commitmentHash) ==
  LET message == Poseidon(<<HashBigInt(commitmentHash), HashBigInt(contentHash)>>)
  IN  IF message.err = ErrPanic THEN [sig |-> NilPtr, err |-> ErrPanic]
      ELSE IF message.err # ErrNil
        THEN [sig |-> NilPtr, err |-> "hash message: " \o message.err]
      ELSE [sig |-> Ptr(SignPoseidon(providerKey, message.Value)), err |-> ErrNil]

SignCertificate(providerKey, contentHash, commitmentHash) ==
  LET message == Poseidon(<<HashBigInt(contentHash), HashBigInt(commitmentHash)>>)
  IN  IF message.err = ErrPanic THEN [sig |-> NilPtr, err |-> ErrPanic]
      ELSE IF message.err # ErrNil
        THEN [sig |-> NilPtr, err |-> "hash message: " \o message.err]
      ELSE [sig |-> Ptr(SignPoseidon(providerKey, message.Value)), err |-> ErrNil]

\* A verification that hashes the commitment before the content.
VerifySignatureSwapped(providerKey, contentHash, commitmentHash, signature) ==
  LET message == Poseidon(<<HashBigInt(commitmentHash), HashBigInt(contentHash)>>)
  IN  IF message.err = ErrPanic THEN [valid |-> FALSE, err |-> ErrPanic]
      ELSE IF message.err # ErrNil THEN [valid |-> FALSE, err |-> ErrHashMessage]
      ELSE IF providerKey.isNil \/ signature.isNil
        THEN [valid |-> FALSE, err |-> ErrPanic]
      ELSE [valid |-> VerifyPoseidon(providerKey.v, message.Value, signature.v),
            err |-> ErrNil]

\* The message is hashed first; VerifyPoseidon then dereferences both pointers.
VerifySignature(providerKey, contentHash, commitmentHash, signature) ==
  LET message == Poseidon(<<HashBigInt(contentHash), HashBigInt(commitmentHash)>>)
  IN  IF message.err = ErrPanic THEN [valid |-> FALSE, err |-> ErrPanic]
      ELSE IF message.err # ErrNil THEN [valid |-> FALSE, err |-> ErrHashMessage]
      ELSE IF providerKey.isNil \/ signature.isNil
        THEN [valid |-> FALSE, err |-> ErrPanic]
      ELSE [valid |-> VerifyPoseidon(providerKey.v, message.Value, signature.v),
            err |-> ErrNil]

\* time.Time.Unix: the seconds of the instant, without its nanoseconds.
Unix(t) == t.sec

\* A leaf hash that takes the holder commitment before the provider data.
LeafHashPermuted(contentHash, providerPublicKey, signature, commitmentHash, salt, expirationDate) ==
  IF providerPublicKey.isNil \/ signature.isNil
    THEN [hash |-> ZeroHash, err |-> ErrPanic]
  ELSE
    LET hash == Poseidon(<<HashBigInt(contentHash),
                           HashBigInt(commitmentHash),
                           providerPublicKey.v.X,
                           providerPublicKey.v.Y,
                           signature.v.S,
                           signature.v.R8.X,
                           signature.v.R8.Y,
                           Int256(salt),
                           Int256(Unix(expirationDate))>>)
    IN  IF hash.err = ErrPanic THEN [hash |-> ZeroHash, err |-> ErrPanic]
        ELSE IF hash.err # ErrNil
          THEN [hash |-> ZeroHash, err |-> "compute hash: " \o hash.err]
        ELSE [hash |-> HashFromBigInt(hash.Value), err |-> ErrNil]

LeafHash(contentHash, providerPublicKey, signature, commitmentHash, salt, expirationDate) ==
  IF providerPublicKey.isNil \/ signature.isNil
    THEN [hash |-> ZeroHash, err |-> ErrPanic]
  ELSE
    LET hash == Poseidon(<<HashBigInt(contentHash),
                           providerPublicKey.v.X,
                           providerPublicKey.v.Y,
                           signature.v.S,
                           signature.v.R8.X,
                           signature.v.R8.Y,
                           HashBigInt(commitmentHash),
                           Int256(salt),
                           Int256(Unix(expirationDate))>>)
    IN  IF hash.err = ErrPanic THEN [hash |-> ZeroHash, err |-> ErrPanic]
        ELSE IF hash.err # ErrNil
          THEN [hash |-> ZeroHash, err |-> "compute hash: " \o hash.err]
        ELSE [hash |-> HashFromBigInt(hash.Value), err |-> ErrNil]

\* Hash.String: the decimal text of the value.
HashString(h) == <<"dec", h>>

\* An identifier with the leaf hash before the standard.
DIDSwapped(standard, leafHash) == <<"did:", HashString(leafHash), ":", standard>>

\* fmt.Sprintf("did:%s:%s", standard, leafHash)
DID(standard, leafHash) == <<"did:", standard, ":", HashString(leafHash)>>

NilCertificate == [isNil |-> TRUE]

New(holderCommitment, content, providerPublicKey, providerSignature, salt, expirationDate) ==
  IF content.hashFails THEN [cert |-> NilCertificate, err |-> ErrContentHash]
  ELSE
    LET contentHash == content.hash
        verified == VerifySignature(providerPublicKey, contentHash, holderCommitment,
                                    providerSignature)
        leaf == LeafHash(contentHash, providerPublicKey, providerSignature,
                         holderCommitment, salt, expirationDate)
        standard == content.standard
    IN  IF verified.err = ErrPanic THEN [cert |-> NilCertificate, err |-> ErrPanic]
        ELSE IF verified.err # ErrNil
          THEN [cert |-> NilCertificate, err |-> "verify signature: " \o verified.err]
        ELSE IF ~verified.valid
          THEN [cert |-> NilCertificate, err |-> ErrInvalidSignature]
        ELSE IF leaf.err = ErrPanic THEN [cert |-> NilCertificate, err |-> ErrPanic]
        ELSE IF leaf.err # ErrNil
          THEN [cert |-> NilCertificate, err |-> "compute leaf hash: " \o leaf.err]
        ELSE [cert |-> [isNil |-> FALSE,
                        HolderCommitment |-> holderCommitment,
                        LeafHash |-> leaf.hash,
                        DID |-> DID(standard, leaf.hash),
                        Standard |-> standard,
                        Content |-> content,
                        ContentHash |-> contentHash,
                        ExpirationDate |-> expirationDate,
                        Provider |-> [PublicKey |-> providerPublicKey.v,
                                      Signature |-> providerSignature.v],
                        RandomSalt |-> salt],
              err |-> ErrNil]

-----------------------------------------------------------------------------
(* Calls of New *)

\* Hash values callers hold: two field elements and one value outside the field.
HashInputs == Values

\* Contents: Hash() returns hash, or fails.
Contents ==
  {[hashFails |-> FALSE, hash |-> h, standard |-> "gip1"] : h \in HashInputs}
    \cup {[hashFails |-> FALSE, hash |-> Int256(0), standard |-> "gip2"],
          [hashFails |-> TRUE, hash |-> ZeroHash, standard |-> "gip1"]}

\* The messages providers sign: Poseidon(contentHash, holderCommitment).
Messages ==
  {Poseidon(<<c, h>>).Value :
     c \in {x \in HashInputs : InField(x)}, h \in {x \in HashInputs : InField(x)}}

\* A signature with the same R8 whose scalar is S plus a multiple of the
\* subgroup order, beyond the field modulus.
Malleated(sig) == [sig EXCEPT !.S = <<"s+", sig.S[2], sig.S[3]>>]

Signatures == {SignPoseidon(k, m) : k \in Keys, m \in Messages}

PublicKeyInputs ==
  {Ptr(PublicKeyOf(k)) : k \in Keys}
    \cup {Ptr([X |-> Int256(0), Y |-> Int256(FieldModulus)]), NilPtr}

SignatureInputs ==
  {Ptr(sig) : sig \in Signatures} \cup {Ptr(Malleated(sig)) : sig \in Signatures}
    \cup {NilPtr}

\* int64 salts; every int64 is below the field modulus.
SaltInputs == {0, FieldModulus - 1}

TimeInputs == {[sec |-> 0, nsec |-> 0], [sec |-> FieldModulus - 1, nsec |-> 5]}

\* One construction per run: New reads its arguments only.
CallNew ==
  /\ cert.op = "none"
  /\ \E holderCommitment \in HashInputs, content \in Contents,
        providerPublicKey \in PublicKeyInputs, providerSignature \in SignatureInputs,
        salt \in SaltInputs, expirationDate \in TimeInputs :
       LET r == New(holderCommitment, content, providerPublicKey, providerSignature,
                    salt, expirationDate)
       IN  cert' = [op |-> "New",
                    holderCommitment |-> holderCommitment,
                    content |-> content,
                    providerPublicKey |-> providerPublicKey,
                    providerSignature |-> providerSignature,
                    salt |-> salt,
                    expirationDate |-> expirationDate,
                    cert |-> r.cert,
                    err |-> r.err]
  /\ UNCHANGED outsideCert

NextCert == CallNew

SpecCert == Init /\ [][NextCert]_vars

-----------------------------------------------------------------------------
(* Calls of SignCertificate, then of VerifySignature or New *)

\* The signatures a verifier is handed: the one SignCertificate returned, the
\* same with a scalar beyond the field, one of another key on another
\* message, and none.
SignedInputs ==
  {signed.sig, NilPtr, Ptr(SignPoseidon(MaxKey, Poseidon(<<Int256(0), Int256(0)>>).Value))}
    \cup (IF signed.sig.isNil THEN {} ELSE {Ptr(Malleated(signed.sig.v))})

CallSignCertificate ==
  /\ signed.op = "none"
  /\ \E providerKey \in Keys, contentHash \in HashInputs, commitmentHash \in HashInputs :
       LET r == SignCertificate(providerKey, contentHash, commitmentHash)
       IN  signed' = [op |-> "SignCertificate",
                      providerKey |-> providerKey,
                      contentHash |-> contentHash,
                      commitmentHash |-> commitmentHash,
                      sig |-> r.sig,
                      err |-> r.err]
  /\ UNCHANGED <<checked, cert, outsideSign>>

CallVerifySignature ==
  /\ signed.op # "none" /\ checked.op = "none" /\ cert.op = "none"
  /\ \E providerKey \in PublicKeyInputs, contentHash \in HashInputs,
        commitmentHash \in HashInputs, signature \in SignedInputs :
       LET r == VerifySignature(providerKey, contentHash, commitmentHash, signature)
       IN  checked' = [op |-> "VerifySignature",
                        providerKey |-> providerKey,
                        contentHash |-> contentHash,
                        commitmentHash |-> commitmentHash,
                        signature |-> signature,
                        valid |-> r.valid,
                        err |-> r.err]
  /\ UNCHANGED <<signed, cert, outsideSign>>

\* New on the signature SignCertificate returned.
CallNewSigned ==
  /\ signed.op # "none" /\ signed.err = ErrNil
  /\ checked.op = "none" /\ cert.op = "none"
  /\ \E holderCommitment \in HashInputs, content \in Contents,
        providerPublicKey \in PublicKeyInputs,
        salt \in SaltInputs, expirationDate \in TimeInputs :
       LET r == New(holderCommitment, content, providerPublicKey, signed.sig,
                    salt, expirationDate)
       IN  cert' = [op |-> "New",
                    holderCommitment |-> holderCommitment,
                    content |-> content,
                    providerPublicKey |-> providerPublicKey,
                    providerSignature |-> signed.sig,
                    salt |-> salt,
                    expirationDate |-> expirationDate,
                    cert |-> r.cert,
                    err |-> r.err]
  /\ UNCHANGED <<signed, checked, outsideSign>>

NextSign ==
  \/ CallSignCertificate
  \/ CallVerifySignature
  \/ CallNewSigned

SpecSign == Init /\ [][NextSign]_vars

-----------------------------------------------------------------------------
(* Provider data on the wire.  A text is the sequence of its characters.  A  *)
(* JSON document is what its bytes denote: err is the error json.Unmarshal  *)
(* gives for bytes that are not valid JSON ("nil" when they are), members   *)
(* the members of the object in the order of the bytes, each a key and a    *)
(* value, the value a string with its text, a number or null.               *)

\* (*big.Int).String: "<nil>" for the nil pointer, else the decimal text,
\* with a minus sign when negative.
BigIntString(v) ==
  IF IsNil(v) THEN <<"<", "n", "i", "l", ">">>
  ELSE IF v[2] < 0 THEN <<"-">> \o Digits(-v[2])
  ELSE Digits(v[2])

\* new(big.Int).SetString(t, 10): an optional sign and at least one digit,
\* nothing else; (nil, false) otherwise.
SetString(t) ==
  LET hasSign == t # <<>> /\ t[1] \in {"+", "-"}
      digits == IF hasSign THEN Tail(t) ELSE t
  IN  IF digits = <<>> \/ \E k \in 1..Len(digits) : ~IsDigit(digits[k])
        THEN [v |-> NilValue, ok |-> FALSE]
      ELSE [v |-> Int256(IF hasSign /\ t[1] = "-" THEN -ParseDigits(digits)
                         ELSE ParseDigits(digits)),
            ok |-> TRUE]

JSONString(t) == [type |-> "string", text |-> t]

\* json.Marshal of a providerDataDTO: an object of five strings under the
\* names of the tags, in the order of the fields.
Marshal(dto) ==
  [err |-> ErrNil,
   members |-> << <<<<"a", "x">>, JSONString(dto.Ax)>>,
                  <<<<"b", "x">>, JSONString(dto.Bx)>>,
                  <<<<"s">>, JSONString(dto.S)>>,
                  <<<<"r", "8", "x">>, JSONString(dto.R8x)>>,
                  <<<<"r", "8", "y">>, JSONString(dto.R8y)>> >>]

\* An encoding with the coordinates of the public key exchanged.
MarshalJSONSwapped(p) ==
  IF p.Signature.R8.isNil THEN [data |-> <<>>, err |-> ErrPanic]
  ELSE [data |-> Marshal([Ax |-> BigIntString(p.PublicKey.Y),
                          Bx |-> BigIntString(p.PublicKey.X),
                          S |-> BigIntString(p.Signature.S),
                          R8x |-> BigIntString(p.Signature.R8.v.X),
                          R8y |-> BigIntString(p.Signature.R8.v.Y)]),
        err |-> ErrNil]

\* ProviderData.MarshalJSON: the providerDataDTO of the five decimal texts;
\* p.Signature.R8.X dereferences R8.
MarshalJSON(p) ==
  IF p.Signature.R8.isNil THEN [data |-> <<>>, err |-> ErrPanic]
  ELSE [data |-> Marshal([Ax |-> BigIntString(p.PublicKey.X),
                          Bx |-> BigIntString(p.PublicKey.Y),
                          S |-> BigIntString(p.Signature.S),
                          R8x |-> BigIntString(p.Signature.R8.v.X),
                          R8y |-> BigIntString(p.Signature.R8.v.Y)]),
        err |-> ErrNil]

\* The fields of providerDataDTO and the JSON names of their tags.
DTOTags ==
  [Ax |-> <<"a", "x">>, Bx |-> <<"b", "x">>, S |-> <<"s">>,
   R8x |-> <<"r", "8", "x">>, R8y |-> <<"r", "8", "y">>]

\* The key with its letters folded as encoding/json folds names: a capital
\* ASCII letter is its small letter, the long s ("U+017F") is s and the
\* Kelvin sign ("U+212A") is k.
FoldName(key) ==
  [k \in 1..Len(key) |->
     IF key[k] = "U+017F" THEN "s"
     ELSE IF key[k] = "U+212A" THEN "k"
     ELSE IF key[k] \in Range(AsciiChars) /\ Byte(key[k]) \in 65..90
       THEN AsciiChars[Byte(key[k]) + 1]
     ELSE key[k]]

\* The field json.Unmarshal decodes a key into: the field whose name is the
\* key, else the field whose name is the key but for the case of its
\* letters; "" when there is none and the member is skipped.
FieldOf(key) ==
  IF \E f \in DOMAIN DTOTags : DTOTags[f] = key
    THEN CHOOSE f \in DOMAIN DTOTags : DTOTags[f] = key
  ELSE IF \E f \in DOMAIN DTOTags : FoldName(DTOTags[f]) = FoldName(key)
    THEN CHOOSE f \in DOMAIN DTOTags : FoldName(DTOTags[f]) = FoldName(key)
  ELSE ""

\* The members of the object decoded one after the other into dto: a string
\* is stored in its field, a later member for the same field replacing an
\* earlier one; null leaves the field; another value leaves the field and is an
\* error, the first of which err keeps while the decoding goes on.
RECURSIVE DecodeMembers(_, _, _)
DecodeMembers(members, dto, err) ==
  IF members = <<>> THEN [dto |-> dto, err |-> err]
  ELSE
    LET f == FieldOf(members[1][1])
        value == members[1][2]
    IN  IF f = "" \/ value.type = "null" THEN DecodeMembers(Tail(members), dto, err)
        ELSE IF value.type = "string"
          THEN DecodeMembers(Tail(members), [dto EXCEPT ![f] = value.text], err)
        ELSE DecodeMembers(Tail(members), dto,
               IF err # ErrNil THEN err
               ELSE "json: cannot unmarshal " \o value.type
                      \o " into Go struct field providerDataDTO."
                      \o Quoted(DTOTags[f]) \o " of type string")

\* json.Unmarshal(data, &dto) into the zero providerDataDTO: bytes that are
\* not valid JSON are refused before anything is decoded.
Unmarshal(data) ==
  LET zero == [Ax |-> <<>>, Bx |-> <<>>, S |-> <<>>, R8x |-> <<>>, R8y |-> <<>>]
  IN  IF data.err # ErrNil THEN [dto |-> zero, err |-> data.err]
      ELSE DecodeMembers(data.members, zero, ErrNil)

\* The zero ProviderData: nil coordinates, nil scalar, nil R8.
ZeroProviderData ==
  [PublicKey |-> [X |-> NilValue, Y |-> NilValue],
   Signature |-> [R8 |-> NilPtr, S |-> NilValue]]

\* ProviderData.UnmarshalJSON on p: an error of json.Unmarshal is returned
\* with p as it was; else each field is assigned before its ok is looked at,
\* and R8 is assigned once both its coordinates have parsed.
UnmarshalJSON(p, data) ==
  LET d == Unmarshal(data)
      ax == SetString(d.dto.Ax)
      bx == SetString(d.dto.Bx)
      r8x == SetString(d.dto.R8x)
      r8y == SetString(d.dto.R8y)
      sc == SetString(d.dto.S)
      p1 == [p EXCEPT !.PublicKey.X = ax.v]
      p2 == [p1 EXCEPT !.PublicKey.Y = bx.v]
      p3 == [p2 EXCEPT !.Signature.R8 = Ptr([X |-> r8x.v, Y |-> r8y.v])]
      p4 == [p3 EXCEPT !.Signature.S = sc.v]
  IN  IF d.err # ErrNil THEN [p |-> p, err |-> d.err]
      ELSE IF ~ax.ok THEN [p |-> p1, err |-> "invalid x coordinate of public key point"]
      ELSE IF ~bx.ok THEN [p |-> p2, err |-> "invalid y coordinate of public key point"]
      ELSE IF ~r8x.ok
        THEN [p |-> p2, err |-> "invalid x coordinate of signature r8 point"]
      ELSE IF ~r8y.ok
        THEN [p |-> p2, err |-> "invalid y coordinate of signature r8 point"]
      ELSE IF ~sc.ok THEN [p |-> p4, err |-> "invalid s component of signature"]
      ELSE [p |-> p4, err |-> ErrNil]

\* The integers a component holds: one, two and three digits, the largest
\* field element, a negative one, and the nil pointer.
ComponentInputs ==
  {Int256(0), Int256(9), Int256(10), Int256(120), Int256(FieldModulus - 1),
   Int256(-1), NilValue}

ProviderDataInputs ==
  {[PublicKey |-> [X |-> x, Y |-> y],
    Signature |-> [R8 |-> Ptr([X |-> r8x, Y |-> r8y]), S |-> sc]] :
     x \in ComponentInputs, y \in ComponentInputs \ {NilValue},
     sc \in ComponentInputs \ {NilValue},
     r8x \in {Int256(0), Int256(10)}, r8y \in {Int256(9), Int256(-1)}}
    \cup {ZeroProviderData}

\* What a decoder is handed: the document as encoded; without its member
\* s; with a hexadecimal ax; with the key of ax in capitals; with a second
\* member ax after the first; with a number for ax; with null for s; with a
\* member no field takes; and bytes cut short.
DataInputs(data) ==
  LET m == data.members
      with(k, member) == [data EXCEPT !.members = [m EXCEPT ![k] = member]]
  IN  {data,
       [data EXCEPT !.members = SubSeq(m, 1, 2) \o SubSeq(m, 4, 5)],
       with(1, <<m[1][1], JSONString(<<"0", "x", "1">>)>>),
       with(1, <<<<"A", "X">>, m[1][2]>>),
       [data EXCEPT !.members = Append(m, <<<<"a", "x">>, JSONString(<<"7">>)>>)],
       with(1, <<m[1][1], [type |-> "number", text |-> <<>>]>>),
       with(3, <<m[3][1], [type |-> "null", text |-> <<>>]>>),
       [data EXCEPT !.members = Append(m, <<<<"a">>, JSONString(<<"7">>)>>)],
       [err |-> "unexpected end of JSON input", members |-> <<>>]}

CallMarshalJSON ==
  /\ wire.op = "none"
  /\ \E p \in ProviderDataInputs :
       LET r == MarshalJSON(p)
       IN  wire' = [op |-> "MarshalJSON", p |-> p, data |-> r.data, err |-> r.err]
  /\ UNCHANGED outsideWire

CallUnmarshalJSON ==
  /\ wire.op = "MarshalJSON" /\ wire.err = ErrNil
  /\ \E data \in DataInputs(wire.data) :
       LET r == UnmarshalJSON(ZeroProviderData, data)
       IN  wire' = [op |-> "UnmarshalJSON", p |-> wire.p, sent |-> wire.data,
                    data |-> data, q |-> r.p, err |-> r.err]
  /\ UNCHANGED outsideWire

NextWire == CallMarshalJSON \/ CallUnmarshalJSON

SpecWire == Init /\ [][NextWire]_vars

-----------------------------------------------------------------------------
(* New on the caller's objects.  A babyjub.PublicKey is a struct of two     *)
(* *big.Int; a babyjub.Signature is a struct of a *Point and a *big.Int.    *)
(* The heap maps the address of each object to the object: a big.Int holds  *)
(* a value, a struct holds the addresses its pointer fields point to.       *)

\* The objects the caller holds: the key providerPublicKey points to with its
\* coordinates, the signature providerSignature points to with its point and
\* scalar, and another integer and another point the caller can assign.
Addresses ==
  {"pk", "pk.X", "pk.Y", "sig", "sig.R8", "sig.R8.X", "sig.R8.Y", "sig.S",
   "other", "other.point"}

BigInt(v) == [val |-> v]

\* The heap after the caller has made the public key pk and the signature sig.
HeapOf(pk, sig) ==
  [a \in Addresses |->
     CASE a = "pk" -> [X |-> "pk.X", Y |-> "pk.Y"]
       [] a = "pk.X" -> BigInt(pk.X)
       [] a = "pk.Y" -> BigInt(pk.Y)
       [] a = "sig" -> [R8 |-> "sig.R8", S |-> "sig.S"]
       [] a = "sig.R8" -> [X |-> "sig.R8.X", Y |-> "sig.R8.Y"]
       [] a = "sig.R8.X" -> BigInt(sig.R8.X)
       [] a = "sig.R8.Y" -> BigInt(sig.R8.Y)
       [] a = "sig.S" -> BigInt(sig.S)
       [] a = "other" -> BigInt(Int256(0))
       [] a = "other.point" -> [X |-> "other", Y |-> "other"]]

\* The value of the point at address a: its coordinates read through the heap.
PointValue(h, a) == [X |-> h[h[a].X].val, Y |-> h[h[a].Y].val]

\* The value of the signature at address a.
SignatureValue(h, a) == [R8 |-> PointValue(h, h[a].R8), S |-> h[h[a].S].val]

\* ProviderData{PublicKey: *providerPublicKey, Signature: *providerSignature}:
\* the two structs are copied, with the pointers they hold.
ProviderData(h, providerPublicKey, providerSignature) ==
  [PublicKey |-> h[providerPublicKey], Signature |-> h[providerSignature]]

\* The values a certificate's provider data has on the heap h.
ProviderValue(h, p) ==
  [PublicKey |-> [X |-> h[p.PublicKey.X].val, Y |-> h[p.PublicKey.Y].val],
   Signature |-> [R8 |-> PointValue(h, p.Signature.R8), S |-> h[p.Signature.S].val]]

\* The inputs of a Hash that has a value in the field.
FieldHashInputs == {x \in HashInputs : InField(x)}

\* The caller makes a key pair and has the content hash and the commitment
\* signed.
CallerSigns ==
  /\ heap = <<>>
  /\ \E providerKey \in Keys, contentHash \in FieldHashInputs,
        commitmentHash \in FieldHashInputs :
       heap' = HeapOf(PublicKeyOf(providerKey),
                      SignCertificate(providerKey, contentHash, commitmentHash).sig.v)
  /\ UNCHANGED <<owned, outsideOwner>>

\* New(holderCommitment, content, &pk, &sig, salt, expirationDate) on the
\* caller's objects.
CallNewOwned ==
  /\ heap # <<>> /\ owned.op = "none"
  /\ \E holderCommitment \in HashInputs, content \in Contents,
        salt \in SaltInputs, expirationDate \in TimeInputs :
       LET r == New(holderCommitment, content, Ptr(PointValue(heap, "pk")),
                    Ptr(SignatureValue(heap, "sig")), salt, expirationDate)
           p == ProviderData(heap, "pk", "sig")
       IN  owned' = [op |-> "New",
                     cert |-> r.cert,
                     err |-> r.err,
                     Provider |-> p,
                     atNew |-> ProviderValue(heap, p)]
  /\ UNCHANGED <<heap, outsideOwner>>

\* New has returned a certificate to the caller.
HasCertificate == owned.op = "New" /\ owned.err = ErrNil

\* providerPublicKey.X = other (or .Y)
CallerAssignsKeyCoordinate ==
  /\ HasCertificate
  /\ \E f \in {"X", "Y"} : heap' = [heap EXCEPT !["pk"][f] = "other"]
  /\ UNCHANGED <<owned, outsideOwner>>

\* providerSignature.S = other, or providerSignature.R8 = otherPoint
CallerAssignsSignatureField ==
  /\ HasCertificate
  /\ \/ heap' = [heap EXCEPT !["sig"].S = "other"]
     \/ heap' = [heap EXCEPT !["sig"].R8 = "other.point"]
  /\ UNCHANGED <<owned, outsideOwner>>

\* providerSignature.R8.X = other (or .Y)
CallerAssignsR8Coordinate ==
  /\ HasCertificate
  /\ \E f \in {"X", "Y"} : heap' = [heap EXCEPT ![heap["sig"].R8][f] = "other"]
  /\ UNCHANGED <<owned, outsideOwner>>

\* The big.Int objects the caller reaches from its key and its signature.
CallerInts ==
  {heap["pk"].X, heap["pk"].Y, heap["sig"].S,
   heap[heap["sig"].R8].X, heap[heap["sig"].R8].Y}

\* providerPublicKey.X.SetInt64(0), and the same on the other coordinates.
CallerSetsInt ==
  /\ HasCertificate
  /\ \E a \in CallerInts : heap' = [heap EXCEPT ![a].val = Int256(0)]
  /\ UNCHANGED <<owned, outsideOwner>>

NextOwner ==
  \/ CallerSigns
  \/ CallNewOwned
  \/ CallerAssignsKeyCoordinate
  \/ CallerAssignsSignatureField
  \/ CallerAssignsR8Coordinate
  \/ CallerSetsInt

SpecOwner == Init /\ [][NextOwner]_vars

-----------------------------------------------------------------------------
(* The tree as the data model describes it: node i's children are 2i+1 and *)
(* 2i+2, its parent is floor((i-1)/2), the leaves are the last 2^(d-1)     *)
(* slots, and Hash(l, r) is the digest of the ordered pair.                *)

Hash(l, r) == <<"H", l, r>>

Depth(nodes) == Levels(Length(nodes))

IsInternal(nodes, n) == (2 * n + 2) \in DOMAIN nodes

LeafSlot(nodes, i) == Pow2(Depth(nodes) - 1) - 1 + i

ValidLeaves(nodes) == 0..(Pow2(Depth(nodes) - 1) - 1)

\* The k-th node on the walk from node n towards the root (k = 0 is n itself).
RECURSIVE Walk(_, _)
Walk(n, k) == IF k = 0 THEN n ELSE Walk((n - 1) \div 2, k - 1)

\* The other child of n's parent (n >= 1).
SiblingOf(n) == IF n % 2 = 1 THEN n + 1 ELSE n - 1

\* Bit k of the bitmask m.
Bit(m, k) == (m \div Pow2(k)) % 2

\* v after n applications of h -> Hash(h, h).
RECURSIVE IterHash(_, _)
IterHash(v, n) == IF n <= 0 THEN v ELSE IterHash(Hash(v, v), n - 1)

\* The fold of the first depth-1 entries of a proof from the leaf value x: at
\* level k the entry is the right operand when bit k is 1, the left when 0.
RECURSIVE FoldPath(_, _, _, _)
FoldPath(acc, k, proof, d) ==
  IF k > d - 2 THEN acc
  ELSE FoldPath(IF Bit(proof.Indices, k) = 1 THEN Hash(acc, proof.Path[k])
                ELSE Hash(proof.Path[k], acc),
                k + 1, proof, d)

SetLeafReturned == last.op = "SetLeaf"

\* C1: in the tree NewEmptyTree returns, and after any sequence of SetLeaf
\* calls that each returned nil, every internal node equals the hash of its
\* left and right child.
C1_NodeConsistency ==
  (built /\ allOk) =>
    \A n \in DOMAIN Nodes :
      IsInternal(Nodes, n) => Nodes[n] = Hash(Nodes[2 * n + 1], Nodes[2 * n + 2])

\* A depth-3 tree after a successful SetLeaf on a right-hand leaf, with two
\* different children under one parent.
C1_Witness ==
  /\ built /\ allOk /\ Depth(Nodes) = 3
  /\ SetLeafReturned /\ last.err = ErrNil /\ last.i = 3
  /\ Nodes[6] = last.val /\ Nodes[5] # Nodes[6]
  /\ Nodes[2] = Hash(Nodes[5], Nodes[6])

\* C2: on a tree of depth d >= 2 reached by successful SetLeaf calls, folding
\* the first d-1 entries of GetProof(i) from the value of leaf i, the entry
\* being the right operand where the bit is 1 and the left where it is 0,
\* gives the root.
C2_ProofReconstructsRoot ==
  (built /\ allOk /\ Depth(Nodes) >= 2) =>
    \A i \in ValidLeaves(Nodes) :
      LET p == GetProof(Nodes, i)
      IN  /\ p.err = ErrNil
          /\ FoldPath(Nodes[LeafSlot(Nodes, i)], 0, p.proof, Depth(Nodes)) = Nodes[0]

\* GetProof returned a proof with mixed direction bits on a depth-3 tree whose
\* leaves are not all equal.
C2_Witness ==
  /\ built /\ allOk /\ Depth(Nodes) = 3
  /\ last.op = "GetProof" /\ last.err = ErrNil /\ last.i = 1
  /\ last.proof.Indices = 2
  /\ Nodes[3] # Nodes[4] /\ Nodes[5] # Nodes[6]
  /\ FoldPath(Nodes[4], 0, last.proof, 3) = Nodes[0]

\* C3 (every tree): GetProof(i).Path has depth entries, entry k <= d-2 is the
\* sibling of the k-th node of the walk from leaf i, entry d-1 is the root.
C3_PathLayout ==
  built =>
    \A i \in ValidLeaves(Nodes) :
      LET p == GetProof(Nodes, i)
          d == Depth(Nodes)
      IN  /\ p.err = ErrNil
          /\ DOMAIN p.proof.Path = 0..(d - 1)
          /\ \A k \in 0..(d - 2) :
               p.proof.Path[k] = Nodes[SiblingOf(Walk(LeafSlot(Nodes, i), k))]
          /\ p.proof.Path[d - 1] = Nodes[0]

\* C3 (the scenario): on a depth-2 tree, SetLeaf(0, A) returning nil followed
\* by SetLeaf(1, B) returning nil gives Root() = Hash(A, B) and
\* GetProof(0).Path = [B, Hash(A, B)].
C3_Scenario ==
  ( /\ built /\ Depth(Nodes) = 2
    /\ last.op = "SetLeaf" /\ last.i = 0 /\ last.err = ErrNil
    /\ last'.op = "SetLeaf" /\ last'.i = 1 /\ last'.err = ErrNil )
  => /\ Nodes'[0] = Hash(last.val, last'.val)
     /\ GetProof(Nodes', 0).proof.Path =
          [k \in 0..1 |-> IF k = 0 THEN last'.val ELSE Hash(last.val, last'.val)]

\* C3: the path layout holds in every state and the scenario on every step.
C3_ProofPath == [](C3_PathLayout) /\ [][C3_Scenario]_vars

\* The depth-2 tree after SetLeaf(1, B) with leaf 0 holding a different A.
C3_Witness ==
  /\ built /\ allOk /\ Depth(Nodes) = 2
  /\ SetLeafReturned /\ last.i = 1 /\ last.err = ErrNil
  /\ Nodes[1] = Int256(0) /\ Nodes[2] = Int256(1) /\ last.val = Int256(1)
  /\ Nodes[0] = Hash(Int256(0), Int256(1))
  /\ GetProof(Nodes, 0).proof.Path[0] = Int256(1)

\* C4 as stated: bit k of Indices is set iff the node visited at level k has
\* an even array index, and GetProof(0) on a depth-2 tree has Indices = 0.
C4_BitSetIffEven ==
  built =>
    /\ \A i \in ValidLeaves(Nodes) :
         LET p == GetProof(Nodes, i)
         IN  /\ p.err = ErrNil
             /\ \A k \in 0..(Depth(Nodes) - 2) :
                  (Bit(p.proof.Indices, k) = 1)
                    <=> (Walk(LeafSlot(Nodes, i), k) % 2 = 0)
    /\ (Depth(Nodes) = 2 => GetProof(Nodes, 0).proof.Indices = 0)

\* C4 amended: bit k of Indices is set iff the node visited at level k has an
\* odd array index (it is a left child and the Path entry, its sibling, is a
\* right child); no higher bit is set; GetProof(0) on a depth-2 tree has
\* Indices = 1.
C4_BitSetIffOdd ==
  built =>
    /\ \A i \in ValidLeaves(Nodes) :
         LET p == GetProof(Nodes, i)
         IN  /\ p.err = ErrNil
             /\ \A k \in 0..(Depth(Nodes) - 2) :
                  (Bit(p.proof.Indices, k) = 1)
                    <=> (Walk(LeafSlot(Nodes, i), k) % 2 = 1)
             /\ p.proof.Indices < Pow2(Depth(Nodes) - 1)
    /\ (Depth(Nodes) = 2 => GetProof(Nodes, 0).proof.Indices = 1)

\* GetProof(0) returned Indices = 1 on a depth-2 tree.
C4_Witness ==
  /\ built /\ Depth(Nodes) = 2
  /\ last.op = "GetProof" /\ last.i = 0 /\ last.err = ErrNil
  /\ last.proof.Indices = 1

NewEmptyTreeReturned == last.op = "NewEmptyTree"

\* C5 as stated: for d >= 1 and a field element v, NewEmptyTree(d, v) returns a tree of 2^d - 1 nodes
\* and 2^(d-1) leaves whose root is v after d applications of h -> Hash(h, h).
C5_RootAfterDHashes ==
  (NewEmptyTreeReturned /\ last.i >= 1 /\ InField(last.val)) =>
    /\ last.err = ErrNil /\ built
    /\ Length(Nodes) = Pow2(last.i) - 1
    /\ GetLeavesAmount(Nodes) = Pow2(last.i - 1)
    /\ Nodes[0] = IterHash(last.val, last.i)

\* C5 amended: for d >= 1 and a field element v, NewEmptyTree(d, v) returns a
\* tree of 2^d - 1 nodes and 2^(d-1) leaves whose root is v after d-1
\* applications of h -> Hash(h, h).
C5_RootAfterDMinus1Hashes ==
  (NewEmptyTreeReturned /\ last.i >= 1 /\ InField(last.val)) =>
    /\ last.err = ErrNil /\ built
    /\ Length(Nodes) = Pow2(last.i) - 1
    /\ GetLeavesAmount(Nodes) = Pow2(last.i - 1)
    /\ Nodes[0] = IterHash(last.val, last.i - 1)

\* NewEmptyTree(3, v) returned a tree whose root is Hash applied twice.
C5_Witness ==
  /\ NewEmptyTreeReturned /\ last.i = 3 /\ last.err = ErrNil /\ built
  /\ Length(Nodes) = 7
  /\ Nodes[0] = Hash(Hash(last.val, last.val), Hash(last.val, last.val))

\* The leaf slot and its ancestors up to the root.
PathNodes(nodes, i) ==
  LET d == Depth(nodes)
      slot == Pow2(d - 1) - 1 + i
  IN  {Walk(slot, k) : k \in 0..(d - 1)}

\* C6: a SetLeaf that returns an error leaves every node as it was before the
\* call; a SetLeaf that returns nil has written the leaf and recomputed all
\* its ancestors.
C6_SetLeafStep ==
  (built /\ last'.op = "SetLeaf") =>
    /\ (last'.err \notin {ErrNil, ErrPanic}) => Nodes' = Nodes
    /\ (last'.err = ErrNil) =>
         /\ Nodes'[LeafSlot(Nodes, last'.i)] = last'.val
         /\ \A n \in PathNodes(Nodes, last'.i) :
              IsInternal(Nodes, n) =>
                Nodes'[n] = Hash(Nodes'[2 * n + 1], Nodes'[2 * n + 2])

C6_NoPartialState == [][C6_SetLeafStep]_vars

OutOfRange(nodes, i) == i < 0 \/ i >= GetLeavesAmount(nodes)

\* C7: with i < 0 or i >= GetLeavesAmount(), SetLeaf and GetProof return the
\* invalid-leaf-index error, GetProof returns the empty Proof and no node
\* changes; with 0 <= i < GetLeavesAmount() neither returns that error.
C7_Step ==
  (built /\ last'.op \in {"SetLeaf", "GetProof"}) =>
    IF OutOfRange(Nodes, last'.i)
      THEN /\ last'.err = ErrInvalidLeafIndex
           /\ last'.proof = EmptyProof
           /\ Nodes' = Nodes
      ELSE last'.err # ErrInvalidLeafIndex

C7_InvalidLeafIndex == [][C7_Step]_vars

\* SetLeaf was called with the first index past the leaves and was refused.
C7_Witness ==
  /\ built /\ Depth(Nodes) = 3
  /\ SetLeafReturned /\ last.i = GetLeavesAmount(Nodes)
  /\ last.err = ErrInvalidLeafIndex

\* GetProof(j) returned a proof and the next call, SetLeaf(i, x), is on a leaf
\* whose leaf-to-root path meets the path of j only in the root: entries
\* 0..top of GetProof(j).Path are afterwards what they were in that proof.
SiblingsKept(top) ==
  ( /\ built /\ Depth(Nodes) >= 2
    /\ last.op = "GetProof" /\ last.err = ErrNil
    /\ last'.op = "SetLeaf" /\ last'.i \in ValidLeaves(Nodes)
    /\ PathNodes(Nodes, last.i) \cap PathNodes(Nodes, last'.i) = {0} )
  => LET after == GetProof(Nodes', last.i)
     IN  /\ after.err = ErrNil
         /\ \A k \in 0..top : after.proof.Path[k] = last.proof.Path[k]

\* C8 as stated: SetLeaf(i, x) keeps every sibling entry Path[0..d-2] of
\* GetProof(j) for the leaves j whose path meets that of i only in the root.
C8_AllSiblingsKept == [][SiblingsKept(Depth(Nodes) - 2)]_vars

\* C8 amended: SetLeaf(i, x) keeps the sibling entries Path[0..d-3] of
\* GetProof(j) for those leaves j: every sibling but the topmost, Path[d-2],
\* which is the child of the root on the path of i.
C8_LowerSiblingsKept == [][SiblingsKept(Depth(Nodes) - 3)]_vars

\* A depth-3 tree after SetLeaf(0, x) returned nil and changed the root's left
\* child, while leaves 2 and 3 differ.
C8_Witness ==
  /\ built /\ allOk /\ Depth(Nodes) = 3
  /\ SetLeafReturned /\ last.i = 0 /\ last.err = ErrNil
  /\ Nodes[3] = last.val /\ Nodes[3] # Nodes[4] /\ Nodes[5] # Nodes[6]
  /\ GetProof(Nodes, 2).proof.Path[0] = Nodes[6]

-----------------------------------------------------------------------------
(* Certificate claims *)

NewReturned == cert.op = "New" /\ cert.err # ErrPanic

\* The provider signature verifies over (contentHash, holderCommitment): both
\* pointers are set and the signature is valid for the public key on the
\* message Hash(contentHash, holderCommitment).
SignatureVerifies ==
  /\ ~cert.content.hashFails
  /\ InField(cert.content.hash) /\ InField(cert.holderCommitment)
  /\ ~cert.providerPublicKey.isNil /\ ~cert.providerSignature.isNil
  /\ VerifyPoseidon(cert.providerPublicKey.v,
                    Hash(cert.content.hash, cert.holderCommitment),
                    cert.providerSignature.v)

\* The nine inputs of the leaf hash are field elements.
LeafHashComputable ==
  /\ ~cert.providerPublicKey.isNil /\ ~cert.providerSignature.isNil
  /\ \A v \in {cert.content.hash, cert.providerPublicKey.v.X,
               cert.providerPublicKey.v.Y, cert.providerSignature.v.S,
               cert.providerSignature.v.R8.X, cert.providerSignature.v.R8.Y,
               cert.holderCommitment} : InField(v)

\* C9: New returns a certificate iff content.Hash() succeeded, the signature
\* verified over (contentHash, holderCommitment) and the leaf hash was
\* computed; a signature that does not verify gives the invalid-signature
\* error; every error comes with a nil certificate.
C9_AllOrNothing ==
  NewReturned =>
    /\ ~cert.cert.isNil <=>
         (~cert.content.hashFails /\ SignatureVerifies /\ LeafHashComputable)
    /\ ( /\ ~cert.content.hashFails
         /\ InField(cert.content.hash) /\ InField(cert.holderCommitment)
         /\ ~SignatureVerifies )
       => (cert.err = ErrInvalidSignature /\ cert.cert.isNil)
    /\ (cert.err # ErrNil) <=> cert.cert.isNil

\* New refused a signature made by another key than the public key passed in.
C9_Witness ==
  /\ NewReturned /\ cert.err = ErrInvalidSignature /\ cert.cert.isNil
  /\ cert.providerPublicKey = Ptr(PublicKeyOf(1))
  /\ cert.providerSignature =
       Ptr(SignPoseidon(2, Hash(cert.content.hash, cert.holderCommitment)))

\* C10: every certificate New returns has LeafHash = Hash(contentHash,
\* publicKey.X, publicKey.Y, signature.S, signature.R8.X, signature.R8.Y,
\* holderCommitment, salt, expiration in Unix seconds), and ContentHash is the
\* value content.Hash() returned.
C10_LeafHashOrder ==
  (NewReturned /\ ~cert.cert.isNil) =>
    /\ cert.cert.ContentHash = cert.content.hash
    /\ cert.cert.LeafHash =
         <<"H", cert.cert.ContentHash,
                cert.providerPublicKey.v.X,
                cert.providerPublicKey.v.Y,
                cert.providerSignature.v.S,
                cert.providerSignature.v.R8.X,
                cert.providerSignature.v.R8.Y,
                cert.holderCommitment,
                Int256(cert.salt),
                Int256(cert.expirationDate.sec)>>

\* New returned a certificate for a content hash, commitment, salt and
\* expiration that all differ from one another where they can.
C10_Witness ==
  /\ NewReturned /\ ~cert.cert.isNil /\ cert.err = ErrNil
  /\ cert.content.hash # cert.holderCommitment
  /\ cert.salt # cert.expirationDate.sec
  /\ cert.expirationDate.nsec # 0
  /\ Len(cert.cert.LeafHash) = 10

\* C11: every certificate New returns has DID = "did:" + Standard + ":" +
\* decimal(LeafHash), where Standard is content.Standard() and LeafHash is
\* the leaf hash of the arguments of that call.
C11_DIDFormat ==
  (NewReturned /\ ~cert.cert.isNil) =>
    /\ cert.cert.DID = <<"did:", cert.cert.Standard, ":", <<"dec", cert.cert.LeafHash>>>>
    /\ cert.cert.Standard = cert.content.standard
    /\ cert.cert.LeafHash =
         LeafHash(cert.content.hash, cert.providerPublicKey, cert.providerSignature,
                  cert.holderCommitment, cert.salt, cert.expirationDate).hash

\* New returned a certificate of the second standard whose leaf hash is a
\* digest of nine inputs.
C11_Witness ==
  /\ NewReturned /\ ~cert.cert.isNil /\ cert.err = ErrNil
  /\ cert.content.standard = "gip2"
  /\ cert.cert.DID[2] = "gip2"
  /\ cert.cert.DID[4][2][1] = "H" /\ Len(cert.cert.DID[4][2]) = 10

-----------------------------------------------------------------------------
(* Signature claims *)

\* Hash(contentHash, commitmentHash) can be computed.
MessageComputable(contentHash, commitmentHash) ==
  InField(contentHash) /\ InField(commitmentHash)

\* SignCertificate signs Hash(contentHash, commitmentHash) and fails only when
\* that hash fails.
C12_SignsMessage ==
  (signed.op = "SignCertificate") =>
    IF MessageComputable(signed.contentHash, signed.commitmentHash)
      THEN /\ signed.err = ErrNil
           /\ signed.sig = Ptr(SignPoseidon(signed.providerKey,
                                 Hash(signed.contentHash, signed.commitmentHash)))
      ELSE signed.err = ErrHashMessage /\ signed.sig.isNil

\* VerifySignature (on non-nil pointers) fails iff the message hash fails, and
\* otherwise answers whether the signature validates for the key on
\* Hash(contentHash, commitmentHash); it accepts what SignCertificate made for
\* the same key and hashes.
C12_VerifiesMessage ==
  (checked.op = "VerifySignature" /\ checked.err # ErrPanic) =>
    /\ (checked.err # ErrNil)
         <=> ~MessageComputable(checked.contentHash, checked.commitmentHash)
    /\ (checked.err # ErrNil) => (checked.err = ErrHashMessage /\ ~checked.valid)
    /\ (checked.err = ErrNil) =>
         (checked.valid <=>
            VerifyPoseidon(checked.providerKey.v,
                           Hash(checked.contentHash, checked.commitmentHash),
                           checked.signature.v))
    /\ ( /\ signed.err = ErrNil
         /\ checked.providerKey = Ptr(PublicKeyOf(signed.providerKey))
         /\ checked.contentHash = signed.contentHash
         /\ checked.commitmentHash = signed.commitmentHash
         /\ checked.signature = signed.sig )
       => (checked.valid /\ checked.err = ErrNil)

\* New accepts what SignCertificate made for the same key, content hash and
\* commitment.
C12_NewAccepts ==
  ( /\ cert.op = "New" /\ signed.op = "SignCertificate" /\ signed.err = ErrNil
    /\ cert.providerSignature = signed.sig
    /\ cert.providerPublicKey = Ptr(PublicKeyOf(signed.providerKey))
    /\ ~cert.content.hashFails /\ cert.content.hash = signed.contentHash
    /\ cert.holderCommitment = signed.commitmentHash )
  => (cert.err = ErrNil /\ ~cert.cert.isNil)

\* C12: SignCertificate and VerifySignature derive the same message
\* Hash(contentHash, commitmentHash), so a signature SignCertificate(k, c, h)
\* returned is accepted by VerifySignature(pub(k), c, h, sig) and by New;
\* VerifySignature returns (false, nil) for a signature that does not
\* validate and an error only when the message hash fails.
C12_SignVerifyAgree == C12_SignsMessage /\ C12_VerifiesMessage /\ C12_NewAccepts

\* VerifySignature accepted the signature SignCertificate made over two
\* different hashes.
C12_Witness ==
  /\ signed.op = "SignCertificate" /\ signed.err = ErrNil
  /\ signed.contentHash # signed.commitmentHash
  /\ checked.op = "VerifySignature" /\ checked.err = ErrNil /\ checked.valid
  /\ checked.signature = signed.sig
  /\ checked.contentHash = signed.contentHash
  /\ checked.commitmentHash = signed.commitmentHash

-----------------------------------------------------------------------------
(* Ownership claims *)

\* C13: after New has returned a certificate, whatever the caller does to the
\* public key and signature objects it passed in, the certificate's
\* Provider.PublicKey and Provider.Signature have the values they had at
\* construction.
C13_ProviderDecoupled ==
  HasCertificate => ProviderValue(heap, owned.Provider) = owned.atNew

\* What C13 leaves true: assigning the fields of the caller's two structs
\* (X, Y of the key; S, R8 of the signature) does not reach the certificate.
C13_StructsCopied ==
  [][(HasCertificate /\ (CallerAssignsKeyCoordinate \/ CallerAssignsSignatureField))
       => ProviderValue(heap', owned.Provider) = ProviderValue(heap, owned.Provider)]_vars

-----------------------------------------------------------------------------
(* Concurrency claims *)

\* Every internal node is the hash of its two children.
Consistent(nodes) ==
  \A n \in DOMAIN nodes :
    IsInternal(nodes, n) => nodes[n] = Hash(nodes[2 * n + 1], nodes[2 * n + 2])

\* Both goroutines have called SetLeaf, both calls have returned nil and
\* their stores are in memory.
BothReturnedNil ==
  \A p \in Procs : procs[p].pc = "done" /\ procs[p].err = ErrNil /\ procs[p].buf = <<>>

\* C14: SetLeaf is not safe for concurrent use: when the calls are mutually
\* exclusive, two calls that both returned nil leave every internal node
\* equal to the hash of its children; without the lock an interleaving of
\* the node reads and writes of two calls on distinct leaves ends, both
\* having returned nil, with an internal node that is not (C14_Witness).
C14_ExclusiveCallsConsistent ==
  (built /\ exclusive /\ BothReturnedNil) => Consistent(Nodes)

\* Without the lock: both calls, on distinct leaves, have returned nil and
\* an internal node differs from the hash of its children.
C14_Witness ==
  /\ built /\ ~exclusive /\ BothReturnedNil
  /\ procs["a"].i # procs["b"].i
  /\ ~Consistent(Nodes)

\* C15: two trees made by separate NewEmptyTree calls, even from the same
\* leafValue object, are independent: a SetLeaf on one of them leaves the
\* value of every node of the other, and the value of EmptyLeafValue, as
\* they were; the call does to its own tree what SetLeaf does to the values.
C15_Step ==
  (at'.op = "SetLeaf") =>
    /\ \A u \in TreeIds \ {at'.t} :
         TreeValues(objs', trees'[u]) = TreeValues(objs, trees[u])
    /\ objs'[<<"EmptyLeafValue">>] = objs[<<"EmptyLeafValue">>]
    /\ objs'[<<"EmptyLeafValue">>] = EmptyLeafValue
    /\ at'.err # ErrPanic =>
         TreeValues(objs', trees'[at'.t])
           = SetLeaf(TreeValues(objs, trees[at'.t]), at'.i,
                     Deref(objs, at'.ref)).Nodes

C15_TreesIndependent == [][C15_Step]_vars

\* Both trees were made from EmptyLeafValue, and a SetLeaf on tree t has
\* returned nil and changed its root while tree s still has the root of an
\* empty tree.
C15_Witness ==
  /\ at.op = "SetLeaf" /\ at.t = "t" /\ at.err = ErrNil /\ at.ref = <<"x">>
  /\ Length(trees["s"]) = 3 /\ Length(trees["t"]) = 3
  /\ trees["s"][1] = <<"EmptyLeafValue">> /\ trees["s"][2] = <<"EmptyLeafValue">>
  /\ trees["t"][1] = <<"x">> /\ trees["t"][2] = <<"EmptyLeafValue">>
  /\ Deref(objs, trees["s"][0]) = Hash(EmptyLeafValue, EmptyLeafValue)
  /\ Deref(objs, trees["t"][0]) = Hash(Int256(0), EmptyLeafValue)

\* A step of a reading goroutine leaves every node, and so the number of
\* nodes, as it was.
C16_ReadersWriteNothing == (readers' # readers) => Nodes' = Nodes

\* What a reading goroutine has returned is what its call returns when it
\* runs alone on the tree.
C16_SameResults ==
  \A rd \in Readers :
    readers[rd].pc = "done" =>
      CASE readers[rd].op = "Root" -> readers[rd].node = Nodes[0]
        [] readers[rd].op = "GetLeavesAmount" ->
             readers[rd].n = Pow2(Depth(Nodes) - 1)
        [] readers[rd].op = "GetProof" ->
             LET p == GetProof(Nodes, readers[rd].i)
             IN  readers[rd].err = p.err /\ readers[rd].proof = p.proof

\* C16: Root, GetProof and GetLeavesAmount are read-only: no step of theirs
\* changes a node or the number of nodes, and calls interleaved on a tree
\* that no SetLeaf is changing return what they return one after another.
C16_ReadOnly == [](C16_SameResults) /\ [][C16_ReadersWriteNothing]_vars

\* Two GetProof calls were interleaved on a depth-3 tree with distinct
\* leaves: one has returned while the other is inside its loop.
C16_Witness ==
  /\ built /\ Depth(Nodes) = 3 /\ Nodes[3] # Nodes[4]
  /\ readers["r"].pc = "done" /\ readers["r"].op = "GetProof"
  /\ readers["r"].i = 0 /\ readers["r"].err = ErrNil
  /\ readers["r"].proof.Path[0] = Nodes[4]
  /\ readers["q"].pc = "sibling" /\ readers["q"].level = 1

-----------------------------------------------------------------------------
(* Encoding claims *)

\* The five components of p.
Components(p) ==
  <<p.PublicKey.X, p.PublicKey.Y, p.Signature.S, p.Signature.R8.v.X,
    p.Signature.R8.v.Y>>

\* The five components of p are non-negative integers.
NonNegative(p) == \A k \in 1..5 : ~IsNil(Components(p)[k]) /\ Components(p)[k][2] >= 0

\* t is the decimal text of the integer v >= 0: digits only, no leading zero
\* but for "0", and the digits weigh v.
IsDecimalOf(t, v) ==
  /\ Len(t) >= 1 /\ \A k \in 1..Len(t) : t[k] \in Range(DigitChars)
  /\ (Len(t) > 1 => t[1] # "0")
  /\ ParseDigits(t) = v[2]

\* C17: for a ProviderData p with five non-negative components, MarshalJSON
\* puts the decimal text of PublicKey.X in ax, of PublicKey.Y in bx, and of
\* the signature's S, R8.X and R8.Y in s, r8x and r8y, and UnmarshalJSON of
\* that encoding succeeds with components equal to those of p.
C17_RoundTrip ==
  (wire.op = "UnmarshalJSON" /\ wire.data = wire.sent /\ NonNegative(wire.p)) =>
    LET m == wire.sent.members
    IN  /\ wire.err = ErrNil
        /\ wire.q = wire.p
        /\ wire.sent.err = ErrNil
        /\ [k \in 1..Len(m) |-> m[k][1]]
             = <<<<"a", "x">>, <<"b", "x">>, <<"s">>, <<"r", "8", "x">>, <<"r", "8", "y">>>>
        /\ \A k \in 1..Len(m) : m[k][2].type = "string"
        /\ IsDecimalOf(m[1][2].text, wire.p.PublicKey.X)
        /\ IsDecimalOf(m[2][2].text, wire.p.PublicKey.Y)
        /\ IsDecimalOf(m[3][2].text, wire.p.Signature.S)
        /\ IsDecimalOf(m[4][2].text, wire.p.Signature.R8.v.X)
        /\ IsDecimalOf(m[5][2].text, wire.p.Signature.R8.v.Y)

\* A ProviderData with X = 120, Y = 9 and R8.X = 10 went through the
\* encoding and came back.
C17_Witness ==
  /\ wire.op = "UnmarshalJSON" /\ wire.data = wire.sent /\ wire.err = ErrNil
  /\ wire.p.PublicKey.X = Int256(120) /\ wire.p.PublicKey.Y = Int256(9)
  /\ wire.sent.members[1] = <<<<"a", "x">>, JSONString(<<"1", "2", "0">>)>>
  /\ wire.sent.members[2] = <<<<"b", "x">>, JSONString(<<"9">>)>>
  /\ wire.sent.members[4] = <<<<"r", "8", "x">>, JSONString(<<"1", "0">>)>>
  /\ wire.q.PublicKey.X = Int256(120) /\ wire.q.Signature.R8.v.X = Int256(10)

-----------------------------------------------------------------------------
(* SetLeaf: completion and frame *)

\* C18: on every tree of depth d >= 1 whose SetLeaf calls so far returned
\* nil, SetLeaf with a valid leaf index and a field element runs to
\* completion and returns nil, touching no position outside the node array;
\* on a depth-1 tree SetLeaf(0, x) leaves Root() = x.
C18_Step ==
  ( /\ built /\ allOk /\ Depth(Nodes) >= 1
    /\ last'.op = "SetLeaf" /\ last'.i \in ValidLeaves(Nodes) /\ InField(last'.val) )
  => /\ last'.err = ErrNil
     /\ DOMAIN Nodes' = DOMAIN Nodes
     /\ (Depth(Nodes) = 1 => Nodes'[0] = last'.val)

C18_SetLeafCompletes == [][C18_Step]_vars

\* The leaf slot of i and its ancestors, bottom-up.
PathUp(nodes, i) == [k \in 1..Depth(nodes) |-> Walk(LeafSlot(nodes, i), k - 1)]

\* The call of p has returned nil on a tree of depth >= 2.
ReturnedNil(pr) == pr.pc = "done" /\ pr.err = ErrNil /\ Depth(pr.before) >= 2

\* A call that returned nil wrote the leaf and then each of its d-1
\* ancestors once, bottom-up, the root last.
C19_WritesPath ==
  \A p \in Procs :
    ReturnedNil(procs[p]) => procs[p].writes = PathUp(procs[p].before, procs[p].i)

\* On the step a call returns nil with no other call in progress, the nodes
\* off the path have their pre-call values, the leaf has the new value, each
\* ancestor is the hash of its current children, and the number of nodes is
\* what it was.
C19_Frame ==
  \A p \in Procs :
    ( /\ exclusive /\ procs[p].pc = "writeNode"
      /\ ReturnedNil(procs'[p]) )
    => LET before == procs[p].before
           path == PathNodes(before, procs[p].i)
       IN  /\ DOMAIN Nodes' = DOMAIN before
           /\ \A n \in DOMAIN before \ path : Nodes'[n] = before[n]
           /\ Nodes'[LeafSlot(before, procs[p].i)] = procs[p].val
           /\ \A n \in path :
                IsInternal(before, n) =>
                  Nodes'[n] = Hash(Nodes'[2 * n + 1], Nodes'[2 * n + 2])
           /\ Cardinality(path) = Depth(before)

\* C19: a successful SetLeaf(i, x) on a tree of depth d >= 2 writes only the
\* target leaf and its d-1 ancestors, each recomputed once, bottom-up, from
\* its current children; every other node keeps its pre-call value and the
\* number of nodes is unchanged.
C19_WritesOnlyPath == [](C19_WritesPath) /\ [][C19_Frame]_vars

\* SetLeaf(2, x) has returned nil on a depth-3 tree having written nodes 5,
\* 2 and 0 in that order, and node 1 is what it was.
C19_Witness ==
  \E p \in Procs :
    /\ exclusive /\ ReturnedNil(procs[p]) /\ Depth(procs[p].before) = 3
    /\ procs[p].i = 2 /\ procs[p].writes = <<5, 2, 0>>
    /\ Nodes[5] = procs[p].val /\ Nodes[5] # procs[p].before[5]
    /\ Nodes[1] = procs[p].before[1] /\ Nodes[0] # procs[p].before[0]

-----------------------------------------------------------------------------
(* SetLeaf: order of calls *)

\* Both copies have taken their calls, on leaves of the tree.
BothOrdersRan ==
  /\ order.phase = "second"
  /\ order.i \in ValidLeaves(order.A) /\ order.j \in ValidLeaves(order.A)

\* Every call on either copy returned nil.
AllReturnedNil == \A e \in Range(order.errA) \cup Range(order.errB) : e = ErrNil

\* C20 as stated: SetLeaf(i, x) then SetLeaf(j, y) gives the node array of
\* SetLeaf(j, y) then SetLeaf(i, x) for leaves i # j, and SetLeaf(i, x) then
\* SetLeaf(i, y) gives the node array of SetLeaf(i, y) alone, whatever the
\* calls return.
C20_AnyCalls == BothOrdersRan => order.A = order.B

\* Where every call returns nil the two orders do agree: the runs on which
\* C20_AnyCalls fails are those in which a SetLeaf has returned an error
\* after storing its leaf.
C20_CallsReturningNil == (BothOrdersRan /\ AllReturnedNil) => order.A = order.B

=============================================================================
